---- MODULE Spec2Model ----
(***************************************************************************)
(* A model of the msprime tree-sequence library: the columnar record store *)
(* with its two sort indexes, the archive dump/load, the tree diff         *)
(* iterator, the sparse tree iterator with leaf counting and MRCA, the     *)
(* haplotype generator, and the Fenwick tree used by the simulator.        *)
(*                                                                         *)
(* Arrays of the C code are functions over 0..k-1 (the code's indexes).    *)
(* A double is modelled by an integer: only the order and equality of      *)
(* times and positions is ever used by the code modelled here.             *)
(***************************************************************************)
EXTENDS Integers, Sequences, FiniteSets, TLC

VARIABLES
    pc,      \* the step the driver has reached
    sim,     \* the simulator: its parameters and the records emitted so far
    ts,      \* the tree sequence built from the simulator
    ret,     \* the status returned by the last library call
    file,    \* the archive file written by dump
    loaded,  \* the tree sequence read back by load
    diff,    \* the tree diff iterator and what its last call returned
    calls,   \* history: what each diff call removed, inserted and reported
    iter,    \* the sparse tree iterator
    tree,    \* the sparse tree the iterator updates
    mrcas,   \* what sparse_tree_get_mrca returned for each pair on the tree
    hg,      \* the haplotype generator
    haplotype, \* what the last hapgen_get_haplotype call returned
    bit,     \* the Fenwick tree, with the plain array it stands for
    config,  \* the configuration file being read by the driver
    msp,     \* the simulator object of the event loop
    run,     \* the msp_run call in progress: its caps and its event count
    uninterrupted, \* the simulator one msp_run call without caps would have
    supplied, \* history: the list passed to the last tree_sequence_set_mutations
    handles, \* the number of HDF5 file identifiers the process holds open
    process, \* the driver process: whether it has exited, and its exit status
    tf,      \* the tree_file_t handle of the legacy tree file
    disk,    \* the bytes of the legacy tree file on disk (NULL: no such file)
    tf_calls \* history: the last tree file call, the records appended and read

vars == <<pc, sim, ts, ret, file, loaded, diff, calls, iter, tree, mrcas,
          hg, haplotype, bit, config, msp, run, uninterrupted, supplied,
          handles, process, tf, disk, tf_calls>>

\* the tree diff iterator
diffVars == <<diff, calls>>

\* the sparse tree and its iterator
treeVars == <<iter, tree, mrcas>>

\* the haplotype generator
hapVars == <<hg, haplotype>>

\* the Fenwick tree
bitVars == <<bit>>

\* the driver's configuration and the simulator's event loop
mspVars == <<config, msp, run, uninterrupted>>

\* the objects that read a tree sequence
readers == <<diffVars, treeVars, hapVars>>

\* the legacy tree file
fileVars == <<tf, disk, tf_calls>>

\* the process and what it holds outside the library's objects
hostVars == <<handles, process, fileVars>>

---------------------------------------------------------------------------
(* Bounds of the model *)

MaxSampleSize == 3
MaxNumLoci == 2
MaxRecords == 4
MaxMutations == 2

\* the Fenwick tree: the largest max_index and the largest value of a cell
MaxIndex == 4
MaxValue == 2

\* the legacy tree file: the most records a writer appends
MaxAppended == 2

\* calls made to the two iterators after they have returned 0
MaxCallsAfterEnd == 2

(* Program constants *)

\* the coordinate of the first locus: the left end of the first tree
FirstLocus == 0

\* the null pointer, and an object that does not exist
NULL == [null |-> TRUE]

\* the history of tree_sequence_set_mutations before any call
NoCall ==
    [called |-> FALSE, mutations |-> <<>>, stored_before |-> 0, before |-> NULL]

\* the process while main has not returned and exit has not been called
Running == [exited |-> FALSE, status |-> 0]

\* the tree file history before any call
NoTreeFileCalls ==
    [op |-> "none", appended |-> <<>>, delivered |-> <<>>, reading |-> TRUE,
     finalised |-> FALSE, sorted |-> FALSE]

\* the process at its start: no file open, no tree file handle, no tree file
HostInit ==
    /\ handles = 0
    /\ process = Running
    /\ tf = NULL
    /\ disk = NULL
    /\ tf_calls = NoTreeFileCalls

\* a C string: its characters up to the terminating NUL
String(chars) == [chars |-> chars]

\* the terminating character of a C string
NUL == "NUL"

\* Status codes: 0 is success, 1 is "another tree", and every MSP_ERR_ code
\* is negative.
MSP_ERR_GENERIC == -1
MSP_ERR_NO_MEMORY == -2
MSP_ERR_IO == -3
MSP_ERR_FILE_FORMAT == -4
MSP_ERR_FILE_VERSION == -5
MSP_ERR_BAD_MODE == -6
MSP_ERR_BAD_PARAM_VALUE == -7
MSP_ERR_OUT_OF_BOUNDS == -8
MSP_ERR_UNSORTED_POP_MODELS == -10
MSP_ERR_HDF5 == -13
MSP_ERR_UNSUPPORTED_FILE_VERSION == -15
MSP_ERR_BAD_ORDERING == -16
MSP_ERR_BAD_MUTATION == -17
MSP_ERR_UNSUPPORTED_OPERATION == -18

Negative(status) == status < 0

MSP_ORDER_TIME == "MSP_ORDER_TIME"
MSP_ORDER_LEFT == "MSP_ORDER_LEFT"
MSP_ORDER_RIGHT == "MSP_ORDER_RIGHT"

---------------------------------------------------------------------------
(* Helpers on arrays *)

Min(a, b) == IF a < b THEN a ELSE b
GSL_MAX(a, b) == IF a > b THEN a ELSE b

EmptyArray == <<>>

\* the indexes of an array of length k
Indexes(k) == 0..(k - 1)

\* the element of a set of one element; {e(x) : x \in {v}} gives v the name
\* x in e, as an assignment to a local variable does
TheOne(S) == CHOOSE x \in S : TRUE

---------------------------------------------------------------------------
(* The simulator's output.  The event loop is not part of the sources; it *)
(* is modelled by what it emits (sections 4.4.4 and 4.4.5): each record    *)
(* joins two lineages that are roots over the whole of [left, right), gets *)
(* a fresh node id from next_node, stores its children as (min, max), and  *)
(* carries the time of its event; records of one event share the time and  *)
(* are emitted in ascending left order.  The run is complete when every    *)
(* locus has a single root.                                                *)

Loci(m) == FirstLocus..(FirstLocus + m - 1)

SimInitial(n, m) ==
    [sample_size |-> n, num_loci |-> m, next_node |-> n + 1, time |-> 0,
     records |-> <<>>, roots |-> [x \in Loci(m) |-> 1..n]]

SimComplete(s) == \A x \in DOMAIN s.roots : Cardinality(s.roots[x]) = 1

\* the least number of records the run still has to emit
SimRecordsToGo(s) ==
    LET togo == {Cardinality(s.roots[x]) - 1 : x \in DOMAIN s.roots}
    IN  CHOOSE k \in togo : \A j \in togo : j <= k

\* the simulator state after emitting the record (l, r, next_node, (c0, c1))
SimRecord(s, l, r, c0, c1, same_event) ==
    LET t == IF same_event THEN s.time ELSE s.time + 1
        u == s.next_node
        cr == [left |-> l, right |-> r, node |-> u,
               children |-> <<Min(c0, c1), GSL_MAX(c0, c1)>>, time |-> t]
    IN  [s EXCEPT !.next_node = u + 1, !.time = t,
                  !.records = Append(s.records, cr),
                  !.roots = [x \in DOMAIN s.roots |->
                               IF l <= x /\ x < r
                               THEN (s.roots[x] \ {c0, c1}) \cup {u}
                               ELSE s.roots[x]]]

msp_get_num_coalescence_records(s) == Len(s.records)

SimInit ==
    /\ pc = "sim"
    /\ \E n \in 2..MaxSampleSize, m \in 1..MaxNumLoci : sim = SimInitial(n, m)
    /\ ts = NULL
    /\ ret = 0
    /\ file = NULL
    /\ loaded = NULL
    /\ diff = NULL
    /\ calls = <<>>
    /\ iter = NULL
    /\ tree = NULL
    /\ mrcas = NULL
    /\ hg = NULL
    /\ haplotype = NULL
    /\ bit = NULL
    /\ supplied = NoCall
    /\ HostInit
    /\ config = NULL
    /\ msp = NULL
    /\ run = NULL
    /\ uninterrupted = NULL

SimEmit ==
    /\ pc = "sim"
    /\ ~SimComplete(sim)
    /\ \E l \in DOMAIN sim.roots, r \in (FirstLocus + 1)..(FirstLocus + sim.num_loci),
          same_event \in BOOLEAN :
         /\ l < r
         /\ same_event =>
              /\ sim.records # <<>>
              /\ sim.records[Len(sim.records)].right <= l
         /\ \E c0, c1 \in 1..(sim.next_node - 1) :
              /\ c0 < c1
              /\ \A x \in l..(r - 1) : c0 \in sim.roots[x] /\ c1 \in sim.roots[x]
              /\ sim' = SimRecord(sim, l, r, c0, c1, same_event)
    /\ Len(sim'.records) + SimRecordsToGo(sim') <= MaxRecords
    /\ UNCHANGED <<pc, ts, ret, file, loaded>>
    /\ UNCHANGED <<readers, bitVars, mspVars, supplied, hostVars>>

---------------------------------------------------------------------------
(* Tree sequence: sort indexes *)

\* a faulty cmp_index_sort: the tie on value is not broken by time
cmp_index_sort_NoTieBreak(ca, cb) ==
    (IF ca.value > cb.value THEN 1 ELSE 0)
      - (IF ca.value < cb.value THEN 1 ELSE 0)

\* cmp_index_sort on two index_sort_t entries
cmp_index_sort(ca, cb) ==
    LET r == (IF ca.value > cb.value THEN 1 ELSE 0)
               - (IF ca.value < cb.value THEN 1 ELSE 0)
    IN  IF r = 0
        THEN (IF ca.time > cb.time THEN 1 ELSE 0)
               - (IF ca.time < cb.time THEN 1 ELSE 0)
        ELSE r

\* the orders qsort may leave the set S in, le being the pairs <<x, y>> with
\* cmp(x, y) <= 0: every entry compares <= every later entry; the order of
\* entries that compare equal is not specified
RECURSIVE qsort(_, _)
qsort(S, le) ==
    IF S = {} THEN {<<>>}
    ELSE UNION {{<<x>> \o rest : rest \in qsort(S \ {x}, le)} :
                  x \in {y \in S : \A z \in S : <<y, z>> \in le}}

\* qsort(sort_buff, num_records, sizeof(index_sort_t), cmp_index_sort)
qsort_index(S) ==
    qsort(S, {p \in S \X S : cmp_index_sort(p[1], p[2]) <= 0})

\* the sort buffer of the insertion index: value = left, time = time
InsertionSortBuff(t) ==
    {[index |-> j, value |-> t.left[j], time |-> t.time[j]] :
       j \in 0..(t.num_records - 1)}

\* the sort buffer of the removal index: value = right, time = -time
RemovalSortBuff(t) ==
    {[index |-> j, value |-> t.right[j], time |-> 0 - t.time[j]] :
       j \in 0..(t.num_records - 1)}

\* the index column read off a sorted buffer
IndexColumn(sorted) == [j \in 0..(Len(sorted) - 1) |-> sorted[j + 1].index]

\* a faulty tree_sequence_make_indexes: num_nodes is taken from the first
\* record instead of the last
tree_sequence_make_indexes_FirstNode(t) ==
    {[t EXCEPT !.insertion_order = IndexColumn(si),
               !.removal_order = IndexColumn(sr),
               !.num_nodes = t.node[0]] :
       si \in qsort_index(InsertionSortBuff(t)),
       sr \in qsort_index(RemovalSortBuff(t))}

\* tree_sequence_make_indexes: the tree sequences it may leave
tree_sequence_make_indexes(t) ==
    {[t EXCEPT !.insertion_order = IndexColumn(si),
               !.removal_order = IndexColumn(sr),
               !.num_nodes = t.node[t.num_records - 1]] :
       si \in qsort_index(InsertionSortBuff(t)),
       sr \in qsort_index(RemovalSortBuff(t))}

---------------------------------------------------------------------------
(* Tree sequence: creation from the simulator *)

\* the JSON strings are modelled as sequences of tokens
encode_environment == String(<<"{", "env", "}">>)

encode_simulation_parameters(s) ==
    String(<<"{", "sample_size", ToString(s.sample_size),
             "num_loci", ToString(s.num_loci), "}">>)

\* memset(self, 0, sizeof(tree_sequence_t))
ZeroTreeSequence ==
    [sample_size |-> 0, num_loci |-> 0, num_records |-> 0, num_nodes |-> 0,
     num_mutations |-> 0,
     left |-> EmptyArray, right |-> EmptyArray, node |-> EmptyArray,
     children |-> EmptyArray, time |-> EmptyArray,
     insertion_order |-> EmptyArray, removal_order |-> EmptyArray,
     trees_parameters |-> NULL, trees_environment |-> NULL,
     mut_node |-> EmptyArray, mut_position |-> EmptyArray,
     mut_parameters |-> NULL, mut_environment |-> NULL]

\* a faulty copy loop: the two children of a record are copied the other way
\* round
CopyRecords_ChildrenSwapped(t, records) ==
    [t EXCEPT
       !.left = [j \in Indexes(t.num_records) |-> records[j + 1].left],
       !.right = [j \in Indexes(t.num_records) |-> records[j + 1].right],
       !.node = [j \in Indexes(t.num_records) |-> records[j + 1].node],
       !.children = [k \in Indexes(2 * t.num_records) |-> records[(k \div 2) + 1].children[2 - (k % 2)]],
       !.time = [j \in Indexes(t.num_records) |-> records[j + 1].time]]

\* a faulty copy loop: the time column is filled in reverse emission order
CopyRecords_TimeReversed(t, records) ==
    [t EXCEPT
       !.left = [j \in Indexes(t.num_records) |-> records[j + 1].left],
       !.right = [j \in Indexes(t.num_records) |-> records[j + 1].right],
       !.node = [j \in Indexes(t.num_records) |-> records[j + 1].node],
       !.children = [k \in Indexes(2 * t.num_records) |-> records[(k \div 2) + 1].children[(k % 2) + 1]],
       !.time = [j \in Indexes(t.num_records) |-> records[t.num_records - j].time]]

\* a faulty copy loop: the right column is filled from records[j].left
CopyRecords_RightFromLeft(t, records) ==
    [t EXCEPT
       !.left = [j \in Indexes(t.num_records) |-> records[j + 1].left],
       !.right = [j \in Indexes(t.num_records) |-> records[j + 1].left],
       !.node = [j \in Indexes(t.num_records) |-> records[j + 1].node],
       !.children = [k \in Indexes(2 * t.num_records) |-> records[(k \div 2) + 1].children[(k % 2) + 1]],
       !.time = [j \in Indexes(t.num_records) |-> records[j + 1].time]]

\* the columns copied from the simulator's records (0-based column j is
\* record j + 1 of the emission sequence)
CopyRecords(t, records) ==
    [t EXCEPT
       !.left = [j \in Indexes(t.num_records) |-> records[j + 1].left],
       !.right = [j \in Indexes(t.num_records) |-> records[j + 1].right],
       !.node = [j \in Indexes(t.num_records) |-> records[j + 1].node],
       !.children = [k \in Indexes(2 * t.num_records) |-> records[(k \div 2) + 1].children[(k % 2) + 1]],
       !.time = [j \in Indexes(t.num_records) |-> records[j + 1].time]]

\* tree_sequence_create: the tree sequences it may produce
tree_sequence_create(s) ==
    LET t0 == [ZeroTreeSequence EXCEPT
                 !.num_records = msp_get_num_coalescence_records(s),
                 !.sample_size = s.sample_size,
                 !.num_loci = s.num_loci,
                 !.num_mutations = 0]
    IN  {[t EXCEPT !.trees_environment = encode_environment,
                   !.trees_parameters = encode_simulation_parameters(s)] :
           t \in tree_sequence_make_indexes(CopyRecords(t0, s.records))}

Create ==
    /\ pc = "sim"
    /\ SimComplete(sim)
    /\ msp_get_num_coalescence_records(sim) > 0
    /\ \E t \in tree_sequence_create(sim) : ts' = t
    /\ ret' = 0
    /\ pc' = "ts"
    /\ UNCHANGED <<sim, file, loaded>>
    /\ UNCHANGED <<readers, bitVars, mspVars, supplied, hostVars>>

---------------------------------------------------------------------------
(* Tree sequence: records and mutations *)

\* a faulty tree_sequence_get_record: the order is examined before the index
tree_sequence_get_record_OrderFirst(t, index, order) ==
    IF order \notin {MSP_ORDER_TIME, MSP_ORDER_LEFT, MSP_ORDER_RIGHT}
    THEN [ret |-> MSP_ERR_BAD_ORDERING, record |-> NULL]
    ELSE IF index >= t.num_records
    THEN [ret |-> MSP_ERR_OUT_OF_BOUNDS, record |-> NULL]
    ELSE LET j == CASE order = MSP_ORDER_TIME -> index
                    [] order = MSP_ORDER_LEFT -> t.insertion_order[index]
                    [] order = MSP_ORDER_RIGHT -> t.removal_order[index]
         IN  [ret |-> 0,
              record |-> [left |-> t.left[j], right |-> t.right[j],
                          node |-> t.node[j],
                          children |-> <<t.children[2 * j], t.children[2 * j + 1]>>,
                          time |-> t.time[j]]]

\* a faulty tree_sequence_get_record: MSP_ORDER_RIGHT reads insertion_order
tree_sequence_get_record_RightByInsertion(t, index, order) ==
    IF index >= t.num_records
    THEN [ret |-> MSP_ERR_OUT_OF_BOUNDS, record |-> NULL]
    ELSE IF order \notin {MSP_ORDER_TIME, MSP_ORDER_LEFT, MSP_ORDER_RIGHT}
    THEN [ret |-> MSP_ERR_BAD_ORDERING, record |-> NULL]
    ELSE LET j == CASE order = MSP_ORDER_TIME -> index
                    [] order = MSP_ORDER_LEFT -> t.insertion_order[index]
                    [] order = MSP_ORDER_RIGHT -> t.insertion_order[index]
         IN  [ret |-> 0,
              record |-> [left |-> t.left[j], right |-> t.right[j],
                          node |-> t.node[j],
                          children |-> <<t.children[2 * j], t.children[2 * j + 1]>>,
                          time |-> t.time[j]]]

\* tree_sequence_get_record: the status and the record written to the caller
\* (NULL when nothing is written)
tree_sequence_get_record(t, index, order) ==
    IF index >= t.num_records
    THEN [ret |-> MSP_ERR_OUT_OF_BOUNDS, record |-> NULL]
    ELSE IF order \notin {MSP_ORDER_TIME, MSP_ORDER_LEFT, MSP_ORDER_RIGHT}
    THEN [ret |-> MSP_ERR_BAD_ORDERING, record |-> NULL]
    ELSE LET j == CASE order = MSP_ORDER_TIME -> index
                    [] order = MSP_ORDER_LEFT -> t.insertion_order[index]
                    [] order = MSP_ORDER_RIGHT -> t.removal_order[index]
         IN  [ret |-> 0,
              record |-> [left |-> t.left[j], right |-> t.right[j],
                          node |-> t.node[j],
                          children |-> <<t.children[2 * j], t.children[2 * j + 1]>>,
                          time |-> t.time[j]]]

\* a faulty cmp_mutation: the order is the reverse
cmp_mutation_Reversed(ia, ib) ==
    (IF ia.position < ib.position THEN 1 ELSE 0)
      - (IF ia.position > ib.position THEN 1 ELSE 0)

\* cmp_mutation on two mutation_t
cmp_mutation(ia, ib) ==
    (IF ia.position > ib.position THEN 1 ELSE 0)
      - (IF ia.position < ib.position THEN 1 ELSE 0)

\* qsort(mutation_ptrs, num_mutations, sizeof(mutation_t *), cmp_mutation_pointer):
\* the pointers are the indexes 1..num_mutations into the caller's list
qsort_mutations(mutations) ==
    LET S == 1..Len(mutations)
    IN  qsort(S, {p \in S \X S :
                    cmp_mutation(mutations[p[1]], mutations[p[2]]) <= 0})

\* a faulty validation: a position equal to num_loci is refused
BadMutation_NumLociRefused(t, mut) ==
    \/ mut.position < 0
    \/ mut.position >= t.num_loci
    \/ mut.node = 0
    \/ mut.node > t.num_nodes

\* the validation of one mutation in tree_sequence_set_mutations
BadMutation(t, mut) ==
    \/ mut.position < 0
    \/ mut.position > t.num_loci
    \/ mut.node = 0
    \/ mut.node > t.num_nodes

\* a faulty tree_sequence_set_mutations: a refused list leaves the stored
\* mutations in place
tree_sequence_set_mutations_KeepsOnError(t, mutations) ==
    LET num_mutations == Len(mutations)
        cleared == [t EXCEPT !.num_mutations = 0,
                             !.mut_position = EmptyArray,
                             !.mut_node = EmptyArray,
                             !.mut_parameters = NULL,
                             !.mut_environment = NULL]
    IN  IF num_mutations > 0
        THEN IF \E j \in 1..num_mutations : BadMutation(t, mutations[j])
             THEN {[ret |-> MSP_ERR_BAD_MUTATION, ts |-> t]}
             ELSE {[ret |-> 0,
                    ts |-> [cleared EXCEPT
                              !.num_mutations = num_mutations,
                              !.mut_node = [j \in Indexes(num_mutations) |-> mutations[ptrs[j + 1]].node],
                              !.mut_position = [j \in Indexes(num_mutations) |-> mutations[ptrs[j + 1]].position]]] :
                     ptrs \in qsort_mutations(mutations)}
        ELSE {[ret |-> 0, ts |-> cleared]}

\* tree_sequence_set_mutations: the outcomes [ret, ts] it may have
tree_sequence_set_mutations(t, mutations) ==
    LET num_mutations == Len(mutations)
        cleared == [t EXCEPT !.num_mutations = 0,
                             !.mut_position = EmptyArray,
                             !.mut_node = EmptyArray,
                             !.mut_parameters = NULL,
                             !.mut_environment = NULL]
    IN  IF num_mutations > 0
        THEN IF \E j \in 1..num_mutations : BadMutation(t, mutations[j])
             THEN {[ret |-> MSP_ERR_BAD_MUTATION, ts |-> cleared]}
             ELSE {[ret |-> 0,
                    ts |-> [cleared EXCEPT
                              !.num_mutations = num_mutations,
                              !.mut_node = [j \in Indexes(num_mutations) |-> mutations[ptrs[j + 1]].node],
                              !.mut_position = [j \in Indexes(num_mutations) |-> mutations[ptrs[j + 1]].position]]] :
                     ptrs \in qsort_mutations(mutations)}
        ELSE {[ret |-> 0, ts |-> cleared]}

encode_mutation_parameters == String(<<"{", "scaled_mutation_rate", "}">>)

\* a faulty DrawMutations: the mutation is put on the node of the record
RECURSIVE DrawMutations_OnParent(_, _, _)
DrawMutations_OnParent(t, b, budget) ==
    IF b >= 2 * t.num_records THEN {<<>>}
    ELSE LET cr == tree_sequence_get_record(t, b \div 2, MSP_ORDER_TIME).record
             here == UNION {[1..c -> [node : {cr.node},
                                      position : cr.left..(cr.right - 1)]] :
                              c \in 0..budget}
         IN  UNION {{h \o rest :
                       rest \in DrawMutations_OnParent(t, b + 1, budget - Len(h))} :
                      h \in here}

\* The mutation lists tree_sequence_generate_mutations may draw from branch
\* b = 2 * j + k on (child k of record j in time order): gsl_ran_poisson
\* gives any count, gsl_ran_flat any position in [left, right).  budget caps
\* the length of the list.
RECURSIVE DrawMutations(_, _, _)
DrawMutations(t, b, budget) ==
    IF b >= 2 * t.num_records THEN {<<>>}
    ELSE LET cr == tree_sequence_get_record(t, b \div 2, MSP_ORDER_TIME).record
             child == cr.children[(b % 2) + 1]
             here == UNION {[1..c -> [node : {child},
                                      position : cr.left..(cr.right - 1)]] :
                              c \in 0..budget}
         IN  UNION {{h \o rest : rest \in DrawMutations(t, b + 1, budget - Len(h))} :
                      h \in here}

\* tree_sequence_generate_mutations: the outcomes [ret, ts] it may have
tree_sequence_generate_mutations(t, budget) ==
    UNION {{IF o.ret = 0 /\ Len(mutations) > 0
            THEN [o EXCEPT !.ts.mut_parameters = encode_mutation_parameters,
                           !.ts.mut_environment = encode_environment]
            ELSE o :
              o \in tree_sequence_set_mutations(t, mutations)} :
             mutations \in DrawMutations(t, 0, budget)}

\* the mutation lists a caller may pass to tree_sequence_set_mutations
MutationLists(t, max) ==
    UNION {[1..c -> [node : 0..(t.num_nodes + 1),
                     position : (0 - 1)..(t.num_loci + 1)]] : c \in 0..max}

GenerateMutations ==
    /\ pc = "ts"
    /\ \E o \in tree_sequence_generate_mutations(ts, MaxMutations) :
         /\ ts' = o.ts
         /\ ret' = o.ret
    /\ pc' = "mutations"
    /\ UNCHANGED <<sim, file, loaded>>
    /\ UNCHANGED <<readers, bitVars, mspVars, supplied, hostVars>>

SetMutations ==
    /\ pc = "ts"
    /\ \E mutations \in MutationLists(ts, MaxMutations) :
         \E o \in tree_sequence_set_mutations(ts, mutations) :
           /\ ts' = o.ts
           /\ ret' = o.ret
    /\ pc' = "mutations"
    /\ UNCHANGED <<sim, file, loaded>>
    /\ UNCHANGED <<readers, bitVars, mspVars, supplied, hostVars>>

\* the mutation lists of up to max mutations whose nodes and positions lie on
\* and next to the ends of the ranges tree_sequence_set_mutations accepts
BoundaryMutationLists(t, max) ==
    UNION {[1..c -> [node : {0, 1, t.num_nodes, t.num_nodes + 1},
                     position : {0 - 1, 0, t.num_loci, t.num_loci + 1}]] :
             c \in 0..max}

\* tree_sequence_set_mutations on a tree sequence without mutations, the list
\* being kept as history
SetMutationsOnce ==
    /\ pc = "ts"
    /\ \E mutations \in BoundaryMutationLists(ts, 1) :
         \E o \in tree_sequence_set_mutations(ts, mutations) :
           /\ ts' = o.ts
           /\ ret' = o.ret
           /\ supplied' = [called |-> TRUE, mutations |-> mutations,
                           stored_before |-> ts.num_mutations,
                           before |-> ts]
    /\ UNCHANGED hostVars
    /\ pc' = "mutations"
    /\ UNCHANGED <<sim, file, loaded>>
    /\ UNCHANGED <<readers, bitVars, mspVars>>

\* tree_sequence_set_mutations called a second time, on whatever the first
\* call left
SetMutationsAgain ==
    /\ pc = "mutations"
    /\ \E mutations \in BoundaryMutationLists(ts, MaxMutations) :
         \E o \in tree_sequence_set_mutations(ts, mutations) :
           /\ ts' = o.ts
           /\ ret' = o.ret
           /\ supplied' = [called |-> TRUE, mutations |-> mutations,
                           stored_before |-> ts.num_mutations,
                           before |-> ts]
    /\ UNCHANGED hostVars
    /\ pc' = "mutations_again"
    /\ UNCHANGED <<sim, file, loaded>>
    /\ UNCHANGED <<readers, bitVars, mspVars>>

---------------------------------------------------------------------------
(* The archive: dump and load *)

MSP_ZLIB_COMPRESSION == "MSP_ZLIB_COMPRESSION"

\* the format version the library writes and accepts
MSP_FILE_FORMAT_VERSION_MAJOR == 0
MSP_FILE_FORMAT_VERSION_MINOR == 1

\* H5T_NATIVE_UINT32 stored as H5T_STD_U32LE: four bytes, low byte first
ToU32LE(v) ==
    <<v % 256, (v \div 256) % 256, (v \div 65536) % 256, (v \div 16777216) % 256>>

FromU32LE(b) == b[1] + 256 * b[2] + 65536 * b[3] + 16777216 * b[4]

\* H5T_NATIVE_DOUBLE stored as H5T_IEEE_F64LE: the same eight bytes, which the
\* model keeps as the value they denote
ToF64LE(v) == [f64 |-> v]

FromF64LE(b) == b.f64

\* a dataset or array attribute: its extent and its elements as stored
Dataset(dims, data) == [dims |-> dims, data |-> data]

\* a scalar string attribute of type H5T_C_S1 with H5Tset_size(strlen(value)):
\* the characters without the terminating NUL
StringAttribute(value) == [size |-> Len(value.chars), data |-> value.chars]

\* tree_sequence_write_hdf5_metadata: the root attributes
tree_sequence_write_hdf5_metadata(t) ==
    [format_version |->
        Dataset(<<2>>, <<ToU32LE(MSP_FILE_FORMAT_VERSION_MAJOR),
                         ToU32LE(MSP_FILE_FORMAT_VERSION_MINOR)>>),
     sample_size |-> Dataset(<<>>, <<ToU32LE(t.sample_size)>>),
     num_loci |-> Dataset(<<>>, <<ToU32LE(t.num_loci)>>)]

\* the filter pipeline of every dataset
Filters(flags) ==
    IF MSP_ZLIB_COMPRESSION \in flags
    THEN <<"shuffle", "deflate9", "fletcher32">>
    ELSE <<"fletcher32">>

H5T_STD_U32LE == "H5T_STD_U32LE"
H5T_IEEE_F64LE == "H5T_IEEE_F64LE"

\* H5Dwrite of a native value into storage of the given type
ToStorage(storage_type, v) ==
    IF storage_type = H5T_STD_U32LE THEN ToU32LE(v) ELSE ToF64LE(v)

\* H5Dread of a stored element of the given type into a native value
FromStorage(storage_type, b) ==
    IF storage_type = H5T_STD_U32LE THEN FromU32LE(b) ELSE FromF64LE(b)

\* one dataset of tree_sequence_write_hdf5_data: size elements of source;
\* NULL when the dataset is not written (size = 0)
WriteField(storage_type, dimensions, size, source, flags) ==
    IF size > 0
    THEN [dims |-> IF dimensions = 2 THEN <<size, 2>> ELSE <<size>>,
          filters |-> Filters(flags),
          data |-> [k \in DOMAIN source |-> ToStorage(storage_type, source[k])]]
    ELSE NULL

\* tree_sequence_write_hdf5_data: the groups and their datasets
tree_sequence_write_hdf5_data(t, flags) ==
    [trees |->
       [left |-> WriteField(H5T_STD_U32LE, 1, t.num_records, t.left, flags),
        right |-> WriteField(H5T_STD_U32LE, 1, t.num_records, t.right, flags),
        node |-> WriteField(H5T_STD_U32LE, 1, t.num_records, t.node, flags),
        children |-> WriteField(H5T_STD_U32LE, 2, t.num_records, t.children, flags),
        time |-> WriteField(H5T_IEEE_F64LE, 1, t.num_records, t.time, flags),
        environment |-> NULL, parameters |-> NULL],
     mutations |->
       IF t.num_mutations = 0 THEN NULL
       ELSE [node |-> WriteField(H5T_STD_U32LE, 1, t.num_mutations, t.mut_node, flags),
             position |-> WriteField(H5T_IEEE_F64LE, 1, t.num_mutations, t.mut_position, flags),
             environment |-> NULL, parameters |-> NULL]]

\* assert(fields[j].value != NULL) in tree_sequence_write_hdf5_provenance
ProvenanceAssertion(t) ==
    /\ t.trees_environment # NULL
    /\ t.trees_parameters # NULL
    /\ t.num_mutations > 0 =>
         /\ t.mut_environment # NULL
         /\ t.mut_parameters # NULL

\* tree_sequence_write_hdf5_provenance: the string attributes added to the
\* groups g
tree_sequence_write_hdf5_provenance(t, g) ==
    [g EXCEPT
       !.trees.environment = StringAttribute(t.trees_environment),
       !.trees.parameters = StringAttribute(t.trees_parameters),
       !.mutations =
          IF t.num_mutations > 0
          THEN [@ EXCEPT !.environment = StringAttribute(t.mut_environment),
                         !.parameters = StringAttribute(t.mut_parameters)]
          ELSE @]

\* tree_sequence_dump: the status and the file left behind; aborted is the
\* failed assertion, which ends the process with the file half written and
\* no status returned; open is the number of file identifiers from H5Fcreate
\* that H5Fclose has not been called on
tree_sequence_dump(t, flags) ==
    LET attrs == tree_sequence_write_hdf5_metadata(t)
        groups == tree_sequence_write_hdf5_data(t, flags)
    IN  IF ProvenanceAssertion(t)
        THEN [ret |-> 0, aborted |-> FALSE, open |-> 0,
              file |-> [attrs |-> attrs,
                        groups |-> tree_sequence_write_hdf5_provenance(t, groups)]]
        ELSE [ret |-> MSP_ERR_GENERIC, aborted |-> TRUE, open |-> 1,
              file |-> [attrs |-> attrs, groups |-> groups]]

\* tree_sequence_read_hdf5_metadata: the status, and sample_size and num_loci
tree_sequence_read_hdf5_metadata(t, f) ==
    LET a == f.attrs
    IN  IF a.format_version.dims # <<2>> \/ a.sample_size.dims # <<>>
           \/ a.num_loci.dims # <<>>
        THEN [ret |-> MSP_ERR_FILE_FORMAT, ts |-> t]
        ELSE LET read == [t EXCEPT
                            !.sample_size = FromU32LE(a.sample_size.data[1]),
                            !.num_loci = FromU32LE(a.num_loci.data[1])]
             IN  IF FromU32LE(a.format_version.data[1])
                      # MSP_FILE_FORMAT_VERSION_MAJOR
                 THEN [ret |-> MSP_ERR_UNSUPPORTED_FILE_VERSION, ts |-> read]
                 ELSE [ret |-> 0, ts |-> read]

\* tree_sequence_check_hdf5_dimensions
tree_sequence_check_hdf5_dimensions(t, f) ==
    LET g == f.groups
        ok(d, rank, size) ==
            d # NULL /\ Len(d.dims) = rank /\ d.dims[1] = size
    IN  IF /\ ok(g.trees.left, 1, t.num_records)
           /\ ok(g.trees.right, 1, t.num_records)
           /\ ok(g.trees.node, 1, t.num_records)
           /\ ok(g.trees.children, 2, t.num_records)
           /\ ok(g.trees.time, 1, t.num_records)
           /\ t.num_mutations > 0 =>
                /\ ok(g.mutations.node, 1, t.num_mutations)
                /\ ok(g.mutations.position, 1, t.num_mutations)
        THEN 0
        ELSE MSP_ERR_FILE_FORMAT

\* tree_sequence_read_hdf5_dimensions: the status, and num_records and
\* num_mutations
tree_sequence_read_hdf5_dimensions(t, f) ==
    LET g == f.groups
    IN  IF g.trees.left = NULL \/ (g.mutations # NULL /\ g.mutations.node = NULL)
        THEN [ret |-> MSP_ERR_HDF5, ts |-> t]
        ELSE IF Len(g.trees.left.dims) # 1
                \/ (g.mutations # NULL /\ Len(g.mutations.node.dims) # 1)
        THEN [ret |-> MSP_ERR_FILE_FORMAT, ts |-> t]
        ELSE LET read == [t EXCEPT
                            !.num_records = g.trees.left.dims[1],
                            !.num_mutations =
                               IF g.mutations # NULL
                               THEN g.mutations.node.dims[1] ELSE 0]
             IN  [ret |-> tree_sequence_check_hdf5_dimensions(read, f),
                  ts |-> read]

\* one dataset of tree_sequence_read_hdf5_data
ReadField(storage_type, d) ==
    [k \in DOMAIN d.data |-> FromStorage(storage_type, d.data[k])]

\* tree_sequence_read_hdf5_data: the columns
tree_sequence_read_hdf5_data(t, f) ==
    LET g == f.groups
        trees == [t EXCEPT
                    !.left = ReadField(H5T_STD_U32LE, g.trees.left),
                    !.right = ReadField(H5T_STD_U32LE, g.trees.right),
                    !.node = ReadField(H5T_STD_U32LE, g.trees.node),
                    !.children = ReadField(H5T_STD_U32LE, g.trees.children),
                    !.time = ReadField(H5T_IEEE_F64LE, g.trees.time)]
    IN  IF t.num_mutations = 0 THEN trees
        ELSE [trees EXCEPT
                !.mut_node = ReadField(H5T_STD_U32LE, g.mutations.node),
                !.mut_position = ReadField(H5T_IEEE_F64LE, g.mutations.position)]

\* a string attribute read into malloc(size + 1) and terminated: the C string
\* ends at the first NUL
ReadString(a) ==
    LET str == SubSeq(a.data, 1, a.size) \o <<NUL>>
        nul == CHOOSE k \in 1..Len(str) :
                 str[k] = NUL /\ \A j \in 1..(k - 1) : str[j] # NUL
    IN  String(SubSeq(str, 1, nul - 1))

\* tree_sequence_read_hdf5_provenance
tree_sequence_read_hdf5_provenance(t, f) ==
    LET g == f.groups
        trees == [t EXCEPT
                    !.trees_environment = ReadString(g.trees.environment),
                    !.trees_parameters = ReadString(g.trees.parameters)]
    IN  IF t.num_mutations > 0
        THEN [trees EXCEPT
                !.mut_environment = ReadString(g.mutations.environment),
                !.mut_parameters = ReadString(g.mutations.parameters)]
        ELSE trees

\* tree_sequence_load: the outcomes [ret, ts, open] it may have on the file f
\* (NULL: no such file); open is the number of file identifiers from H5Fopen
\* that H5Fclose has not been called on when it returns
tree_sequence_load(f, flags) ==
    IF f = NULL
    THEN {[ret |-> MSP_ERR_HDF5, ts |-> ZeroTreeSequence, open |-> 0]}
    ELSE LET meta == tree_sequence_read_hdf5_metadata(ZeroTreeSequence, f)
             dimensions == tree_sequence_read_hdf5_dimensions(meta.ts, f)
             data == tree_sequence_read_hdf5_provenance(
                         tree_sequence_read_hdf5_data(dimensions.ts, f), f)
         IN  IF Negative(meta.ret)
             THEN {[ret |-> MSP_ERR_GENERIC, ts |-> meta.ts, open |-> 1]}
             ELSE IF dimensions.ret # 0
             THEN {[ret |-> dimensions.ret, ts |-> dimensions.ts, open |-> 1]}
             ELSE {[ret |-> 0, ts |-> t, open |-> 0] :
                     t \in tree_sequence_make_indexes(data)}

Dump ==
    /\ pc \in {"ts", "mutations"}
    /\ \E flags \in SUBSET {MSP_ZLIB_COMPRESSION} :
         LET o == tree_sequence_dump(ts, flags)
         IN  /\ ret' = o.ret
             /\ file' = o.file
             /\ handles' = handles + o.open
             /\ pc' = IF o.aborted THEN "aborted" ELSE "dumped"
    /\ UNCHANGED <<sim, ts, loaded>>
    /\ UNCHANGED <<readers, bitVars, mspVars, supplied, process, fileVars>>

Load ==
    /\ pc = "dumped"
    /\ \E o \in tree_sequence_load(file, {}) :
         /\ ret' = o.ret
         /\ loaded' = o.ts
         /\ handles' = handles + o.open
    /\ pc' = "loaded"
    /\ UNCHANGED <<sim, ts, file>>
    /\ UNCHANGED <<readers, bitVars, mspVars, supplied, process, fileVars>>

\* the archive is replaced by one that a library of another format version
\* wrote: the same contents under another format_version attribute
OtherVersion ==
    /\ pc = "dumped"
    /\ \E major \in {MSP_FILE_FORMAT_VERSION_MAJOR + 1,
                      MSP_FILE_FORMAT_VERSION_MAJOR + 2},
          minor \in {0, MSP_FILE_FORMAT_VERSION_MINOR} :
         file' = [file EXCEPT !.attrs.format_version =
                    Dataset(<<2>>, <<ToU32LE(major), ToU32LE(minor)>>)]
    /\ pc' = "other_version"
    /\ UNCHANGED <<sim, ts, ret, loaded>>
    /\ UNCHANGED <<readers, bitVars, mspVars, supplied, hostVars>>

\* tree_sequence_load on the archive of another format version
LoadOtherVersion ==
    /\ pc = "other_version"
    /\ \E o \in tree_sequence_load(file, {}) :
         /\ ret' = o.ret
         /\ loaded' = o.ts
         /\ handles' = handles + o.open
    /\ pc' = "loaded"
    /\ UNCHANGED <<sim, ts, file>>
    /\ UNCHANGED <<readers, bitVars, mspVars, supplied, process, fileVars>>

---------------------------------------------------------------------------
(* Tree diff iterator *)

\* a faulty tree_diff_iterator_alloc: the first tree is taken to start at 1
tree_diff_iterator_alloc_LeftOne(t) ==
    [sample_size |-> t.sample_size,
     num_nodes |-> t.num_nodes,
     num_records |-> t.num_records,
     insertion_index |-> 0,
     removal_index |-> 0,
     tree_left |-> 1,
     node_records |-> [j \in Indexes(2 * t.sample_size) |-> NULL],
     length |-> 0, nodes_out |-> NULL, nodes_in |-> NULL]

\* tree_diff_iterator_alloc: the iterator over t.  node_records is the buffer
\* of 2 * sample_size node records; length, nodes_out and nodes_in are the
\* caller's variables that tree_diff_iterator_next writes
tree_diff_iterator_alloc(t) ==
    [sample_size |-> t.sample_size,
     num_nodes |-> t.num_nodes,
     num_records |-> t.num_records,
     insertion_index |-> 0,
     removal_index |-> 0,
     tree_left |-> FirstLocus,
     node_records |-> [j \in Indexes(2 * t.sample_size) |-> NULL],
     length |-> 0, nodes_out |-> NULL, nodes_in |-> NULL]

\* a pointer to node_records[j]
NodeRecordPtr(j) == [null |-> FALSE, index |-> j]

\* the node record the loops fill in for column k
NodeRecord(t, k) ==
    [time |-> t.time[k], node |-> t.node[k],
     children |-> <<t.children[2 * k], t.children[2 * k + 1]>>,
     next |-> NULL]

\* a state of the locals of tree_diff_iterator_next
DiffLocals(it) ==
    [it |-> it, next_node_record |-> 0,
     out_head |-> NULL, out_tail |-> NULL, in_head |-> NULL, in_tail |-> NULL,
     removed |-> <<>>, inserted |-> <<>>, fault |-> "none"]

\* a faulty DiffAppend: a slot of node_records is left out after each record
DiffAppend_SkipsSlot(l, t, k, out) ==
    LET w == l.next_node_record
        tail == IF out THEN l.out_tail ELSE l.in_tail
        stored == [l.it.node_records EXCEPT ![w] = NodeRecord(t, k)]
        linked == IF tail = NULL THEN stored
                  ELSE [stored EXCEPT ![tail.index].next = NodeRecordPtr(w)]
        head == IF tail = NULL THEN NodeRecordPtr(w)
                ELSE IF out THEN l.out_head ELSE l.in_head
    IN  IF out
        THEN [l EXCEPT !.it.node_records = linked,
                       !.next_node_record = w + 2,
                       !.out_head = head, !.out_tail = NodeRecordPtr(w),
                       !.removed = Append(@, k),
                       !.it.removal_index = @ + 1]
        ELSE [l EXCEPT !.it.node_records = linked,
                       !.next_node_record = w + 2,
                       !.in_head = head, !.in_tail = NodeRecordPtr(w),
                       !.inserted = Append(@, k),
                       !.it.insertion_index = @ + 1]

\* the body of both loops: record column k goes to node_records[
\* next_node_record], which is linked to the tail of the out-list (out = TRUE)
\* or of the in-list
DiffAppend(l, t, k, out) ==
    LET w == l.next_node_record
        tail == IF out THEN l.out_tail ELSE l.in_tail
        stored == [l.it.node_records EXCEPT ![w] = NodeRecord(t, k)]
        linked == IF tail = NULL THEN stored
                  ELSE [stored EXCEPT ![tail.index].next = NodeRecordPtr(w)]
        head == IF tail = NULL THEN NodeRecordPtr(w)
                ELSE IF out THEN l.out_head ELSE l.in_head
    IN  IF out
        THEN [l EXCEPT !.it.node_records = linked,
                       !.next_node_record = w + 1,
                       !.out_head = head, !.out_tail = NodeRecordPtr(w),
                       !.removed = Append(@, k),
                       !.it.removal_index = @ + 1]
        ELSE [l EXCEPT !.it.node_records = linked,
                       !.next_node_record = w + 1,
                       !.in_head = head, !.in_tail = NodeRecordPtr(w),
                       !.inserted = Append(@, k),
                       !.it.insertion_index = @ + 1]

\* the removal loop; fault records a read past the end of removal_order or
\* a failed assertion, after which the call has no defined result
RECURSIVE DiffRemovalLoop(_, _)
DiffRemovalLoop(l, t) ==
    IF l.it.removal_index >= t.num_records
    THEN [l EXCEPT !.fault = "out_of_bounds"]
    ELSE IF t.right[t.removal_order[l.it.removal_index]] # l.it.tree_left
    THEN l
    ELSE IF ~(l.next_node_record < 2 * l.it.sample_size)
    THEN [l EXCEPT !.fault = "assertion"]
    ELSE DiffRemovalLoop(
             DiffAppend(l, t, t.removal_order[l.it.removal_index], TRUE), t)

\* the insertion loop
RECURSIVE DiffInsertionLoop(_, _)
DiffInsertionLoop(l, t) ==
    IF ~(/\ l.it.insertion_index < l.it.num_records
         /\ t.left[t.insertion_order[l.it.insertion_index]] = l.it.tree_left)
    THEN l
    ELSE IF ~(l.next_node_record < 2 * l.it.sample_size)
    THEN [l EXCEPT !.fault = "assertion"]
    ELSE DiffInsertionLoop(
             DiffAppend(l, t, t.insertion_order[l.it.insertion_index], FALSE), t)

\* a faulty tree_diff_iterator_next: the new records are inserted before the
\* stale ones are removed
tree_diff_iterator_next_InsertFirst(it, t) ==
    LET last_left == it.tree_left
        start == DiffLocals(it)
    IN  IF it.insertion_index < it.num_records
        THEN LET l1 == DiffInsertionLoop(start, t)
                 l2 == IF l1.fault = "none" THEN DiffRemovalLoop(l1, t) ELSE l1
                 l3 == IF l2.fault # "none" THEN l2
                       ELSE IF l2.it.removal_index >= t.num_records
                       THEN [l2 EXCEPT !.fault = "out_of_bounds"]
                       ELSE [l2 EXCEPT !.it.tree_left =
                                t.right[t.removal_order[l2.it.removal_index]]]
             IN  [ret |-> 1,
                  it |-> [l3.it EXCEPT !.nodes_out = l3.out_head,
                                       !.nodes_in = l3.in_head,
                                       !.length = l3.it.tree_left - last_left],
                  removed |-> l3.removed, inserted |-> l3.inserted,
                  fault |-> l3.fault]
        ELSE [ret |-> 0,
              it |-> [it EXCEPT !.nodes_out = NULL, !.nodes_in = NULL,
                                !.length = it.tree_left - last_left],
              removed |-> <<>>, inserted |-> <<>>, fault |-> "none"]

\* a faulty tree_diff_iterator_next: the length reported is the new tree_left
tree_diff_iterator_next_LengthFromZero(it, t) ==
    LET start == DiffLocals(it)
    IN  IF it.insertion_index < it.num_records
        THEN LET l1 == DiffRemovalLoop(start, t)
                 l2 == IF l1.fault = "none" THEN DiffInsertionLoop(l1, t) ELSE l1
                 l3 == IF l2.fault # "none" THEN l2
                       ELSE IF l2.it.removal_index >= t.num_records
                       THEN [l2 EXCEPT !.fault = "out_of_bounds"]
                       ELSE [l2 EXCEPT !.it.tree_left =
                                t.right[t.removal_order[l2.it.removal_index]]]
             IN  [ret |-> 1,
                  it |-> [l3.it EXCEPT !.nodes_out = l3.out_head,
                                       !.nodes_in = l3.in_head,
                                       !.length = l3.it.tree_left],
                  removed |-> l3.removed, inserted |-> l3.inserted,
                  fault |-> l3.fault]
        ELSE [ret |-> 0,
              it |-> [it EXCEPT !.nodes_out = NULL, !.nodes_in = NULL,
                                !.length = 0],
              removed |-> <<>>, inserted |-> <<>>, fault |-> "none"]

\* a faulty tree_diff_iterator_next: it does not test for the end
tree_diff_iterator_next_NoEndTest(it, t) ==
    LET last_left == it.tree_left
        l1 == DiffRemovalLoop(DiffLocals(it), t)
        l2 == IF l1.fault = "none" THEN DiffInsertionLoop(l1, t) ELSE l1
        l3 == IF l2.fault # "none" THEN l2
              ELSE IF l2.it.removal_index >= t.num_records
              THEN [l2 EXCEPT !.fault = "out_of_bounds"]
              ELSE [l2 EXCEPT !.it.tree_left =
                       t.right[t.removal_order[l2.it.removal_index]]]
    IN  [ret |-> 1,
         it |-> [l3.it EXCEPT !.nodes_out = l3.out_head,
                              !.nodes_in = l3.in_head,
                              !.length = l3.it.tree_left - last_left],
         removed |-> l3.removed, inserted |-> l3.inserted,
         fault |-> l3.fault]

\* a faulty tree_diff_iterator_next: after the last tree the length is
\* counted from the start of the sequence
tree_diff_iterator_next_LengthFromStart(it, t) ==
    LET last_left == it.tree_left
        start == DiffLocals(it)
    IN  IF it.insertion_index < it.num_records
        THEN LET l1 == DiffRemovalLoop(start, t)
                 l2 == IF l1.fault = "none" THEN DiffInsertionLoop(l1, t) ELSE l1
                 l3 == IF l2.fault # "none" THEN l2
                       ELSE IF l2.it.removal_index >= t.num_records
                       THEN [l2 EXCEPT !.fault = "out_of_bounds"]
                       ELSE [l2 EXCEPT !.it.tree_left =
                                t.right[t.removal_order[l2.it.removal_index]]]
             IN  [ret |-> 1,
                  it |-> [l3.it EXCEPT !.nodes_out = l3.out_head,
                                       !.nodes_in = l3.in_head,
                                       !.length = l3.it.tree_left - last_left],
                  removed |-> l3.removed, inserted |-> l3.inserted,
                  fault |-> l3.fault]
        ELSE [ret |-> 0,
              it |-> [it EXCEPT !.nodes_out = NULL, !.nodes_in = NULL,
                                !.length = it.tree_left],
              removed |-> <<>>, inserted |-> <<>>, fault |-> "none"]

\* tree_diff_iterator_next: the status, the iterator (with the length and the
\* list heads written to the caller), the columns removed and inserted, and
\* the fault if the call ran into one
tree_diff_iterator_next(it, t) ==
    LET last_left == it.tree_left
        start == DiffLocals(it)
    IN  IF it.insertion_index < it.num_records
        THEN LET l1 == DiffRemovalLoop(start, t)
                 l2 == IF l1.fault = "none" THEN DiffInsertionLoop(l1, t) ELSE l1
                 l3 == IF l2.fault # "none" THEN l2
                       ELSE IF l2.it.removal_index >= t.num_records
                       THEN [l2 EXCEPT !.fault = "out_of_bounds"]
                       ELSE [l2 EXCEPT !.it.tree_left =
                                t.right[t.removal_order[l2.it.removal_index]]]
             IN  [ret |-> 1,
                  it |-> [l3.it EXCEPT !.nodes_out = l3.out_head,
                                       !.nodes_in = l3.in_head,
                                       !.length = l3.it.tree_left - last_left],
                  removed |-> l3.removed, inserted |-> l3.inserted,
                  fault |-> l3.fault]
        ELSE [ret |-> 0,
              it |-> [it EXCEPT !.nodes_out = NULL, !.nodes_in = NULL,
                                !.length = it.tree_left - last_left],
              removed |-> <<>>, inserted |-> <<>>, fault |-> "none"]

\* the node records of the list that starts at head
RECURSIVE NodeList(_, _)
NodeList(node_records, head) ==
    IF head = NULL THEN <<>>
    ELSE <<node_records[head.index]>>
           \o NodeList(node_records, node_records[head.index].next)

DiffAlloc ==
    /\ pc = "ts"
    /\ diff' = tree_diff_iterator_alloc(ts)
    /\ calls' = <<>>
    /\ ret' = 0
    /\ pc' = "diff"
    /\ UNCHANGED <<sim, ts, file, loaded>>
    /\ UNCHANGED <<treeVars, hapVars, bitVars, mspVars, supplied, hostVars>>

\* while ((ret = tree_diff_iterator_next(...)) == 1)
DiffNext ==
    /\ pc = "diff"
    /\ LET o == tree_diff_iterator_next(diff, ts)
       IN  /\ diff' = o.it
           /\ ret' = o.ret
           /\ calls' = Append(calls, [ret |-> o.ret, length |-> o.it.length,
                                      removed |-> o.removed,
                                      inserted |-> o.inserted,
                                      tree_left |-> diff.tree_left,
                                      new_tree_left |-> o.it.tree_left])
           /\ pc' = IF o.fault # "none" THEN "aborted"
                    ELSE IF o.ret = 1 THEN "diff" ELSE "diff_done"
    /\ UNCHANGED <<sim, ts, file, loaded>>
    /\ UNCHANGED <<treeVars, hapVars, bitVars, mspVars, supplied, hostVars>>

---------------------------------------------------------------------------
(* Sparse tree *)

MSP_COUNT_LEAVES == "MSP_COUNT_LEAVES"

\* the content of memory returned by malloc, before it is written
Garbage == "garbage"

\* malloc(k * sizeof(...))
malloc(k) == [j \in Indexes(k) |-> Garbage]

\* the array a with a[j] = v for every j in from..(to - 1), as memset and
\* the initialising loops leave it
Fill(a, from, to, v) ==
    [j \in DOMAIN a |-> IF from <= j /\ j < to THEN v ELSE a[j]]

\* the loop of sparse_tree_alloc over tracked_leaves[j .. ]: the status and
\* the num_tracked_leaves array
RECURSIVE MarkTrackedLeaves(_, _, _, _)
MarkTrackedLeaves(num_tracked, tracked_leaves, j, sample_size) ==
    IF j > Len(tracked_leaves) THEN [ret |-> 0, num_tracked_leaves |-> num_tracked]
    ELSE LET u == tracked_leaves[j]
         IN  IF u = 0 \/ u > sample_size
             THEN [ret |-> MSP_ERR_BAD_PARAM_VALUE,
                   num_tracked_leaves |-> num_tracked]
             ELSE MarkTrackedLeaves([num_tracked EXCEPT ![u] = 1],
                                    tracked_leaves, j + 1, sample_size)

\* memset(self, 0, sizeof(sparse_tree_t))
ZeroSparseTree ==
    [num_nodes |-> 0, sample_size |-> 0, flags |-> {},
     left |-> 0, right |-> 0, root |-> 0,
     parent |-> NULL, time |-> NULL, children |-> NULL,
     num_leaves |-> NULL, num_tracked_leaves |-> NULL,
     max_mutations |-> 0, num_mutations |-> 0, mutations |-> NULL]

\* sparse_tree_alloc: the status and the tree.  tracked_leaves is the
\* caller's list (1-based sequence of its num_tracked_leaves entries)
sparse_tree_alloc(sample_size, num_nodes, max_mutations, tracked_leaves, flags) ==
    IF num_nodes = 0 \/ sample_size = 0
    THEN [ret |-> MSP_ERR_BAD_PARAM_VALUE, tree |-> ZeroSparseTree]
    ELSE LET t0 == [ZeroSparseTree EXCEPT
                      !.num_nodes = num_nodes,
                      !.sample_size = sample_size,
                      !.flags = flags,
                      !.parent = malloc(num_nodes + 1),
                      !.time = malloc(num_nodes + 1),
                      !.children = malloc(2 * (num_nodes + 1)),
                      !.max_mutations = max_mutations,
                      !.num_mutations = 0,
                      !.mutations = malloc(max_mutations)]
         IN  IF MSP_COUNT_LEAVES \in flags
             THEN LET leaves ==
                          Fill(Fill(malloc(num_nodes + 1), 0, 1, 0),
                               1, sample_size + 1, 1)
                      tracked ==
                          MarkTrackedLeaves(
                              Fill(malloc(num_nodes + 1), 0, sample_size + 1, 0),
                              tracked_leaves, 1, sample_size)
                  IN  [ret |-> tracked.ret,
                       tree |-> [t0 EXCEPT
                                   !.num_leaves = leaves,
                                   !.num_tracked_leaves =
                                      tracked.num_tracked_leaves]]
             ELSE [ret |-> 0, tree |-> t0]

\* tree_sequence_alloc_sparse_tree
tree_sequence_alloc_sparse_tree(t, tracked_leaves, flags) ==
    sparse_tree_alloc(t.sample_size, t.num_nodes, t.num_mutations,
                      tracked_leaves, flags)

\* sparse_tree_clear
sparse_tree_clear(t) ==
    LET N == t.num_nodes + 1
        n == t.sample_size
        cleared == [t EXCEPT
                      !.left = 0, !.right = 0, !.root = 0,
                      !.parent = Fill(@, 0, N, 0),
                      !.time = Fill(@, 0, N, 0),
                      !.children = Fill(@, 0, 2 * N, 0)]
    IN  IF MSP_COUNT_LEAVES \in t.flags
        THEN [cleared EXCEPT
                !.num_leaves = Fill(@, n + 1, N, 0),
                !.num_tracked_leaves = Fill(@, n + 1, N, 0)]
        ELSE cleared

\* the bottom-up walk of sparse_tree_get_mrca from node j: the stack of the
\* nodes passed, with the failed assertion as fault
RECURSIVE MrcaWalk(_, _, _)
MrcaWalk(t, j, stack) ==
    IF j = 0 THEN [stack |-> stack, fault |-> "none"]
    ELSE IF ~(Len(stack) < t.sample_size)
    THEN [stack |-> stack, fault |-> "assertion"]
    ELSE MrcaWalk(t, t.parent[j], Append(stack, j))

\* a faulty variant: the loop stops after its second turn, at the top entry
\* of the first stack
MrcaDescend_TopOnly(s1, s2, l1, l2) ==
    IF l1 - 1 >= 0 /\ l2 - 1 >= 0 /\ s1[l1] = s2[l2] THEN s1[l1] ELSE s1[l1 + 1]

\* the do-while of sparse_tree_get_mrca on the two stacks (1-based here:
\* s[l + 1] is the code's s[l]), w being the last node both hold
RECURSIVE MrcaDescend(_, _, _, _)
MrcaDescend(s1, s2, l1, l2) ==
    LET w == s1[l1 + 1]
    IN  IF l1 - 1 >= 0 /\ l2 - 1 >= 0 /\ s1[l1] = s2[l2]
        THEN MrcaDescend(s1, s2, l1 - 1, l2 - 1)
        ELSE w

\* a faulty sparse_tree_get_mrca: the id 0 is not refused
sparse_tree_get_mrca_ZeroAccepted(t, u, v) ==
    IF u > t.num_nodes \/ v > t.num_nodes
    THEN [ret |-> MSP_ERR_BAD_PARAM_VALUE, mrca |-> NULL, fault |-> "none"]
    ELSE LET w1 == MrcaWalk(t, u, <<>>)
             w2 == MrcaWalk(t, v, <<>>)
             s1 == Append(w1.stack, 0)
             s2 == Append(w2.stack, 0)
         IN  IF w1.fault # "none" \/ w2.fault # "none"
             THEN [ret |-> 0, mrca |-> NULL, fault |-> "assertion"]
             ELSE [ret |-> 0,
                   mrca |-> [null |-> FALSE,
                             node |-> MrcaDescend(s1, s2, Len(s1) - 1,
                                                  Len(s2) - 1)],
                   fault |-> "none"]

\* sparse_tree_get_mrca: the status and the node written to the caller
sparse_tree_get_mrca(t, u, v) ==
    IF u = 0 \/ v = 0 \/ u > t.num_nodes \/ v > t.num_nodes
    THEN [ret |-> MSP_ERR_BAD_PARAM_VALUE, mrca |-> NULL, fault |-> "none"]
    ELSE LET w1 == MrcaWalk(t, u, <<>>)
             w2 == MrcaWalk(t, v, <<>>)
             s1 == Append(w1.stack, 0)
             s2 == Append(w2.stack, 0)
         IN  IF w1.fault # "none" \/ w2.fault # "none"
             THEN [ret |-> 0, mrca |-> NULL, fault |-> "assertion"]
             ELSE [ret |-> 0,
                   mrca |-> [null |-> FALSE,
                             node |-> MrcaDescend(s1, s2, Len(s1) - 1,
                                                  Len(s2) - 1)],
                   fault |-> "none"]

\* the loop of sparse_tree_get_num_leaves_by_traversal on the stack (top
\* last): the number of nodes of counted it pops
RECURSIVE CountByTraversal(_, _, _, _)
CountByTraversal(t, stack, count, counted) ==
    IF stack = <<>> THEN count
    ELSE LET v == stack[Len(stack)]
             rest == SubSeq(stack, 1, Len(stack) - 1)
         IN  IF 1 <= v /\ v <= t.sample_size
             THEN CountByTraversal(t, rest,
                                   IF v \in counted THEN count + 1 ELSE count,
                                   counted)
             ELSE IF t.children[2 * v] # 0
             THEN CountByTraversal(t,
                      rest \o <<t.children[2 * v], t.children[2 * v + 1]>>,
                      count, counted)
             ELSE CountByTraversal(t, rest, count, counted)

\* sparse_tree_get_num_leaves_by_traversal
sparse_tree_get_num_leaves_by_traversal(t, u) ==
    CountByTraversal(t, <<u>>, 0, 1..t.sample_size)

\* sparse_tree_get_num_leaves: the status and the count
sparse_tree_get_num_leaves(t, u) ==
    IF MSP_COUNT_LEAVES \in t.flags
    THEN [ret |-> 0, num_leaves |-> t.num_leaves[u]]
    ELSE [ret |-> 0,
          num_leaves |-> sparse_tree_get_num_leaves_by_traversal(t, u)]

\* a faulty sparse_tree_get_num_tracked_leaves: the output is zeroed before
\* the flag is examined
sparse_tree_get_num_tracked_leaves_ZeroedFirst(t, u) ==
    IF MSP_COUNT_LEAVES \notin t.flags
    THEN [ret |-> MSP_ERR_UNSUPPORTED_OPERATION,
          num_tracked_leaves |-> [null |-> FALSE, count |-> 0]]
    ELSE [ret |-> 0,
          num_tracked_leaves |->
             [null |-> FALSE, count |-> t.num_tracked_leaves[u]]]

\* sparse_tree_get_num_tracked_leaves: the status and the count written
sparse_tree_get_num_tracked_leaves(t, u) ==
    IF MSP_COUNT_LEAVES \notin t.flags
    THEN [ret |-> MSP_ERR_UNSUPPORTED_OPERATION, num_tracked_leaves |-> NULL]
    ELSE [ret |-> 0,
          num_tracked_leaves |->
             [null |-> FALSE, count |-> t.num_tracked_leaves[u]]]

---------------------------------------------------------------------------
(* Sparse tree iterator *)

\* sparse_tree_iterator_alloc: the status, the iterator and the tree
sparse_tree_iterator_alloc(s, t) ==
    IF \/ s.num_nodes # t.num_nodes
       \/ s.sample_size # t.sample_size
       \/ s.num_mutations # t.max_mutations
    THEN [ret |-> MSP_ERR_BAD_PARAM_VALUE, iter |-> NULL, tree |-> t]
    ELSE [ret |-> 0,
          iter |-> [sample_size |-> s.sample_size,
                    num_nodes |-> s.num_nodes,
                    num_records |-> s.num_records,
                    insertion_index |-> 0,
                    removal_index |-> 0,
                    mutation_index |-> 0],
          tree |-> sparse_tree_clear([t EXCEPT !.sample_size = s.sample_size])]

\* a faulty variant: a loss is added to the counts of v like a gain
PropagateLeaves_AlwaysGain(t, v, all_leaves_diff, tracked_leaves_diff, sign) ==
    IF v = 0 THEN t
    ELSE [t EXCEPT
            !.num_leaves[v] = @ + all_leaves_diff,
            !.num_tracked_leaves[v] = @ + tracked_leaves_diff]

\* the propagation loops: sign * all_leaves_diff and sign * tracked_leaves_diff
\* are added to the counts of v and of every node above it
RECURSIVE PropagateLeaves(_, _, _, _, _)
PropagateLeaves(t, v, all_leaves_diff, tracked_leaves_diff, sign) ==
    IF v = 0 THEN t
    ELSE PropagateLeaves(
             [t EXCEPT
                !.num_leaves[v] = @ + sign * all_leaves_diff,
                !.num_tracked_leaves[v] = @ + sign * tracked_leaves_diff],
             t.parent[v], all_leaves_diff, tracked_leaves_diff, sign)

\* a faulty variant: the root stays where it was when its record goes
RemoveRecord_RootKept(t, s, k) ==
    LET u == s.node[k]
        c0 == s.children[2 * k]
        c1 == s.children[2 * k + 1]
        unlinked == [t EXCEPT
                       !.parent[c0] = 0, !.children[2 * u] = 0,
                       !.parent[c1] = 0, !.children[2 * u + 1] = 0,
                       !.time[u] = 0]
    IN  IF MSP_COUNT_LEAVES \in t.flags
        THEN [unlinked EXCEPT !.num_leaves[u] = 0, !.num_tracked_leaves[u] = 0]
        ELSE unlinked

\* the body of the removal loop for record column k
RemoveRecord(t, s, k) ==
    LET u == s.node[k]
        c0 == s.children[2 * k]
        c1 == s.children[2 * k + 1]
        unlinked == [t EXCEPT
                       !.parent[c0] = 0, !.children[2 * u] = 0,
                       !.parent[c1] = 0, !.children[2 * u + 1] = 0,
                       !.time[u] = 0,
                       !.root = IF u = t.root THEN GSL_MAX(c0, c1) ELSE @]
    IN  IF MSP_COUNT_LEAVES \in t.flags
        THEN PropagateLeaves(unlinked, u, unlinked.num_leaves[u],
                             unlinked.num_tracked_leaves[u], 0 - 1)
        ELSE unlinked

\* a faulty InsertRecord: the time of the node is not stored
InsertRecord_TimeNotSet(t, s, k) ==
    LET u == s.node[k]
        c0 == s.children[2 * k]
        c1 == s.children[2 * k + 1]
        linked == [t EXCEPT
                     !.parent[c0] = u, !.children[2 * u] = c0,
                     !.parent[c1] = u, !.children[2 * u + 1] = c1,
                     !.root = IF u > t.root THEN u ELSE @]
    IN  IF MSP_COUNT_LEAVES \in t.flags
        THEN PropagateLeaves(linked, u,
                             linked.num_leaves[c0] + linked.num_leaves[c1],
                             linked.num_tracked_leaves[c0]
                               + linked.num_tracked_leaves[c1], 1)
        ELSE linked

\* the body of the insertion loop for record column k
InsertRecord(t, s, k) ==
    LET u == s.node[k]
        c0 == s.children[2 * k]
        c1 == s.children[2 * k + 1]
        linked == [t EXCEPT
                     !.parent[c0] = u, !.children[2 * u] = c0,
                     !.parent[c1] = u, !.children[2 * u + 1] = c1,
                     !.time[u] = s.time[k],
                     !.root = IF u > t.root THEN u ELSE @]
    IN  IF MSP_COUNT_LEAVES \in t.flags
        THEN PropagateLeaves(linked, u,
                             linked.num_leaves[c0] + linked.num_leaves[c1],
                             linked.num_tracked_leaves[c0]
                               + linked.num_tracked_leaves[c1], 1)
        ELSE linked

\* the removal loop on x = [iter, tree, fault]; fault records a read past
\* the end of removal_order
RECURSIVE TreeRemovalLoop(_, _)
TreeRemovalLoop(x, s) ==
    IF x.iter.removal_index >= s.num_records
    THEN [x EXCEPT !.fault = "out_of_bounds"]
    ELSE IF s.right[s.removal_order[x.iter.removal_index]] # x.tree.right
    THEN x
    ELSE TheOne({TreeRemovalLoop(
                     [x EXCEPT !.tree = removed, !.iter.removal_index = @ + 1], s) :
                   removed \in {RemoveRecord(
                                   x.tree, s,
                                   s.removal_order[x.iter.removal_index])}})

\* the insertion loop
RECURSIVE TreeInsertionLoop(_, _)
TreeInsertionLoop(x, s) ==
    IF ~(/\ x.iter.insertion_index < x.iter.num_records
         /\ s.left[s.insertion_order[x.iter.insertion_index]] = x.tree.left)
    THEN x
    ELSE TheOne({TreeInsertionLoop(
                     [x EXCEPT !.tree = inserted,
                               !.iter.insertion_index = @ + 1], s) :
                   inserted \in {InsertRecord(
                                    x.tree, s,
                                    s.insertion_order[x.iter.insertion_index])}})

\* while (t->parent[t->root] != 0)
RECURSIVE FindRoot(_)
FindRoot(t) ==
    IF t.parent[t.root] # 0 THEN FindRoot([t EXCEPT !.root = t.parent[t.root]])
    ELSE t

\* the loop that hands the mutations lying left of tree.right to the tree
RECURSIVE TreeMutationLoop(_, _)
TreeMutationLoop(x, s) ==
    IF ~(/\ x.iter.mutation_index < s.num_mutations
         /\ s.mut_position[x.iter.mutation_index] < x.tree.right)
    THEN x
    ELSE IF ~(x.tree.num_mutations < x.tree.max_mutations)
    THEN [x EXCEPT !.fault = "assertion"]
    ELSE TreeMutationLoop(
             [x EXCEPT
                !.tree.mutations[x.tree.num_mutations] =
                   [position |-> s.mut_position[x.iter.mutation_index],
                    node |-> s.mut_node[x.iter.mutation_index]],
                !.tree.num_mutations = @ + 1,
                !.iter.mutation_index = @ + 1], s)

\* the update of the interval between the two loops, with the read past
\* the end of removal_order as fault
TreeInterval(x, s) ==
    IF x.fault # "none" THEN x
    ELSE IF x.iter.removal_index >= s.num_records
    THEN [x EXCEPT !.fault = "out_of_bounds"]
    ELSE [x EXCEPT
            !.tree.left = x.tree.right,
            !.tree.right = s.right[s.removal_order[x.iter.removal_index]]]

\* the insertion loop and the walk to the root
TreeInsertions(x, s) ==
    IF x.fault # "none" THEN x
    ELSE TheOne({[y EXCEPT !.tree = FindRoot(@)] :
                   y \in {TreeInsertionLoop(x, s)}})

\* t->num_mutations = 0 and the mutation loop
TreeMutations(x, s) ==
    IF x.fault # "none" THEN x
    ELSE TreeMutationLoop([x EXCEPT !.tree.num_mutations = 0], s)

\* sparse_tree_iterator_next: the status, the iterator, the tree, and the
\* fault if the call ran into one
sparse_tree_iterator_next(it, t, s) ==
    IF it.insertion_index < it.num_records
    THEN TheOne(
           {[ret |-> 1, iter |-> x4.iter, tree |-> x4.tree, fault |-> x4.fault] :
              x4 \in {TreeMutations(x3, s) :
                x3 \in {TreeInsertions(x2, s) :
                  x2 \in {TreeInterval(x1, s) :
                    x1 \in {TreeRemovalLoop(
                              [iter |-> it, tree |-> t, fault |-> "none"], s)}}}}})
    ELSE [ret |-> 0, iter |-> it, tree |-> t, fault |-> "none"]

\* the tracked_leaves lists a caller may pass: the samples of a set in
\* ascending order
RECURSIVE AscendingList(_)
AscendingList(S) ==
    IF S = {} THEN <<>>
    ELSE LET least == CHOOSE u \in S : \A v \in S : u <= v
         IN  <<least>> \o AscendingList(S \ {least})

\* the lists tried: no sample, each single sample, all samples, and one list
\* for each kind of id that is not a sample
TrackedLeavesLists(sample_size) ==
    {<<>>, AscendingList(1..sample_size), <<0>>, <<sample_size + 1>>}
      \cup {<<u>> : u \in 1..sample_size}

\* what sparse_tree_get_mrca returns on the tree t for every pair of ids
\* 0..num_nodes + 1
MrcaTable(t) ==
    [p \in (0..(t.num_nodes + 1)) \X (0..(t.num_nodes + 1)) |->
       sparse_tree_get_mrca(t, p[1], p[2])]

\* tree_sequence_alloc_sparse_tree, then sparse_tree_iterator_alloc
TreeAlloc ==
    /\ pc = "ts"
    /\ \E flags \in SUBSET {MSP_COUNT_LEAVES},
          tracked_leaves \in TrackedLeavesLists(ts.sample_size) :
         \E a \in {tree_sequence_alloc_sparse_tree(ts, tracked_leaves, flags)} :
           \E i \in {sparse_tree_iterator_alloc(ts, a.tree)} :
             IF a.ret # 0
             THEN /\ ret' = a.ret
                  /\ tree' = a.tree
                  /\ iter' = NULL
                  /\ pc' = "failed"
             ELSE /\ ret' = i.ret
                  /\ tree' = i.tree
                  /\ iter' = i.iter
                  /\ pc' = IF i.ret # 0 THEN "failed" ELSE "tree"
    /\ mrcas' = NULL
    /\ UNCHANGED <<sim, ts, file, loaded>>
    /\ UNCHANGED <<diffVars, hapVars, bitVars, mspVars, supplied, hostVars>>

\* one turn of while ((ret = sparse_tree_iterator_next(sparse_iter)) == 1):
\* the next tree, then the MRCAs on it
TreeNext ==
    /\ pc = "tree"
    /\ \E o \in {sparse_tree_iterator_next(iter, tree, ts)} :
         /\ iter' = o.iter
         /\ tree' = o.tree
         /\ ret' = o.ret
         /\ mrcas' = IF o.fault = "none" /\ o.ret = 1 THEN MrcaTable(o.tree)
                     ELSE mrcas
         /\ pc' = IF o.fault # "none" THEN "aborted"
                  ELSE IF o.ret = 1 THEN "tree" ELSE "tree_done"
    /\ UNCHANGED <<sim, ts, file, loaded>>
    /\ UNCHANGED <<diffVars, hapVars, bitVars, mspVars, supplied, hostVars>>

\* tree_diff_iterator_alloc and tree_sequence_alloc_sparse_tree with
\* sparse_tree_iterator_alloc on the same tree sequence
LockstepAlloc ==
    /\ pc = "ts"
    /\ \E flags \in SUBSET {MSP_COUNT_LEAVES} :
         \E a \in {tree_sequence_alloc_sparse_tree(ts, <<>>, flags)} :
           \E i \in {sparse_tree_iterator_alloc(ts, a.tree)} :
             IF a.ret # 0
             THEN /\ ret' = a.ret
                  /\ tree' = a.tree
                  /\ iter' = NULL
                  /\ pc' = "failed"
             ELSE /\ ret' = i.ret
                  /\ tree' = i.tree
                  /\ iter' = i.iter
                  /\ pc' = IF i.ret # 0 THEN "failed" ELSE "lockstep"
    /\ diff' = tree_diff_iterator_alloc(ts)
    /\ calls' = <<>>
    /\ mrcas' = NULL
    /\ UNCHANGED <<sim, ts, file, loaded>>
    /\ UNCHANGED <<hapVars, bitVars, mspVars, supplied, hostVars>>

\* tree_diff_iterator_next and sparse_tree_iterator_next, one call of each,
\* for as long as both return 1
LockstepNext ==
    /\ pc = "lockstep"
    /\ \E d \in {tree_diff_iterator_next(diff, ts)} :
       \E o \in {sparse_tree_iterator_next(iter, tree, ts)} :
         /\ diff' = d.it
         /\ iter' = o.iter
         /\ tree' = o.tree
         /\ ret' = o.ret
         /\ calls' = Append(calls, [ret |-> d.ret, length |-> d.it.length,
                                    removed |-> d.removed,
                                    inserted |-> d.inserted,
                                    tree_left |-> diff.tree_left,
                                    new_tree_left |-> d.it.tree_left,
                                    tree_ret |-> o.ret,
                                    tree_before |-> tree,
                                    fault |-> d.fault,
                                    tree_fault |-> o.fault])
         /\ pc' = IF d.fault # "none" \/ o.fault # "none" THEN "aborted"
                  ELSE IF d.ret = 1 /\ o.ret = 1 THEN "lockstep"
                  ELSE "lockstep_done"
    /\ mrcas' = NULL
    /\ UNCHANGED <<sim, ts, file, loaded>>
    /\ UNCHANGED <<hapVars, bitVars, mspVars, supplied, hostVars>>

\* tree_diff_iterator_alloc and tree_sequence_alloc_sparse_tree with
\* sparse_tree_iterator_alloc on a tree sequence whose mutations
\* tree_sequence_set_mutations has accepted
LockstepAllocMutated ==
    /\ pc = "mutations"
    /\ ret = 0
    /\ \E flags \in SUBSET {MSP_COUNT_LEAVES} :
         \E a \in {tree_sequence_alloc_sparse_tree(ts, <<>>, flags)} :
           \E i \in {sparse_tree_iterator_alloc(ts, a.tree)} :
             IF a.ret # 0
             THEN /\ ret' = a.ret
                  /\ tree' = a.tree
                  /\ iter' = NULL
                  /\ pc' = "failed"
             ELSE /\ ret' = i.ret
                  /\ tree' = i.tree
                  /\ iter' = i.iter
                  /\ pc' = IF i.ret # 0 THEN "failed" ELSE "lockstep"
    /\ diff' = tree_diff_iterator_alloc(ts)
    /\ calls' = <<>>
    /\ mrcas' = NULL
    /\ UNCHANGED <<sim, ts, file, loaded>>
    /\ UNCHANGED <<hapVars, bitVars, mspVars, supplied, hostVars>>

\* the calls of the history that returned 0
CallsAtEnd == {k \in 1..Len(calls) : calls[k].ret = 0 \/ calls[k].tree_ret = 0}

\* tree_diff_iterator_next and sparse_tree_iterator_next called once more
\* after the loop over the trees has ended
LockstepAgain ==
    /\ pc = "lockstep_done"
    /\ Cardinality(CallsAtEnd) <= MaxCallsAfterEnd
    /\ \E d \in {tree_diff_iterator_next(diff, ts)} :
       \E o \in {sparse_tree_iterator_next(iter, tree, ts)} :
         /\ diff' = d.it
         /\ iter' = o.iter
         /\ tree' = o.tree
         /\ ret' = o.ret
         /\ calls' = Append(calls, [ret |-> d.ret, length |-> d.it.length,
                                    removed |-> d.removed,
                                    inserted |-> d.inserted,
                                    tree_left |-> diff.tree_left,
                                    new_tree_left |-> d.it.tree_left,
                                    tree_ret |-> o.ret,
                                    tree_before |-> tree,
                                    fault |-> d.fault,
                                    tree_fault |-> o.fault])
         /\ pc' = IF d.fault # "none" \/ o.fault # "none" THEN "aborted"
                  ELSE "lockstep_done"
    /\ mrcas' = NULL
    /\ UNCHANGED <<sim, ts, file, loaded>>
    /\ UNCHANGED <<hapVars, bitVars, mspVars, supplied, hostVars>>

\* tree_sequence_alloc_sparse_tree and sparse_tree_iterator_alloc on a tree
\* sequence whose mutations tree_sequence_set_mutations has accepted
TreeAllocMutated ==
    /\ pc = "mutations"
    /\ ret = 0
    /\ \E a \in {tree_sequence_alloc_sparse_tree(ts, <<>>, {})} :
         \E i \in {sparse_tree_iterator_alloc(ts, a.tree)} :
           IF a.ret # 0
           THEN /\ ret' = a.ret
                /\ tree' = a.tree
                /\ iter' = NULL
                /\ pc' = "failed"
           ELSE /\ ret' = i.ret
                /\ tree' = i.tree
                /\ iter' = i.iter
                /\ pc' = IF i.ret # 0 THEN "failed" ELSE "tree_mutated"
    /\ calls' = <<>>
    /\ mrcas' = NULL
    /\ UNCHANGED <<sim, ts, file, loaded>>
    /\ UNCHANGED <<diff, hapVars, bitVars, mspVars, supplied, hostVars>>

\* one turn of while ((ret = sparse_tree_iterator_next(&iter)) == 1), the
\* interval and the mutation list of each tree being kept as history
TreeNextMutated ==
    /\ pc = "tree_mutated"
    /\ \E o \in {sparse_tree_iterator_next(iter, tree, ts)} :
         /\ iter' = o.iter
         /\ tree' = o.tree
         /\ ret' = o.ret
         /\ calls' = IF o.fault = "none" /\ o.ret = 1
                     THEN Append(calls,
                            [left |-> o.tree.left, right |-> o.tree.right,
                             mutations |-> [j \in 1..o.tree.num_mutations |->
                                              o.tree.mutations[j - 1]]])
                     ELSE calls
         /\ pc' = IF o.fault # "none" THEN "aborted"
                  ELSE IF o.ret = 1 THEN "tree_mutated" ELSE "tree_mutated_done"
    /\ mrcas' = NULL
    /\ UNCHANGED <<sim, ts, file, loaded>>
    /\ UNCHANGED <<diff, hapVars, bitVars, mspVars, supplied, hostVars>>

---------------------------------------------------------------------------
(* Haplotype generator.  A uint64_t word of the matrix is the set of its   *)
(* bits that are 1.  A write that falls outside the buffer it is meant for *)
(* leaves the buffer as it is and is recorded as the fault                 *)
(* "out_of_bounds"; what becomes of the run is chosen where hapgen_alloc   *)
(* is called.                                                              *)

HG_WORD_SIZE == 64

\* hapgen_set_bit
hapgen_set_bit(h, row, column) ==
    LET word == column \div HG_WORD_SIZE
        b == column % HG_WORD_SIZE
        index == row * h.words_per_row + word
    IN  IF ~(word < h.words_per_row) THEN [h EXCEPT !.fault = "assertion"]
        ELSE IF index \notin DOMAIN h.haplotype_matrix
        THEN [h EXCEPT !.fault = "out_of_bounds"]
        ELSE [h EXCEPT !.haplotype_matrix[index] = @ \cup {b}]

\* one turn of the loop of hapgen_apply_tree_mutation on the traversal stack
\* (top last): the generator and the stack
HapgenVisit(h, site, stack) ==
    LET u == stack[Len(stack)]
        rest == SubSeq(stack, 1, Len(stack) - 1)
        pushed == rest \o <<h.tree.children[2 * u],
                            h.tree.children[2 * u + 1]>>
    IN  IF h.tree.children[2 * u] = 0
        THEN [hg |-> hapgen_set_bit(h, u - 1, site), stack |-> rest]
        ELSE [hg |-> IF Len(pushed) > h.sample_size
                     THEN [h EXCEPT !.fault = "out_of_bounds"] ELSE h,
              stack |-> pushed]

\* while (stack_top >= 0) in hapgen_apply_tree_mutation
RECURSIVE HapgenTraverse(_, _, _)
HapgenTraverse(h, site, stack) ==
    IF stack = <<>> \/ h.fault = "assertion" THEN h
    ELSE TheOne({HapgenTraverse(x.hg, site, x.stack) :
                   x \in {HapgenVisit(h, site, stack)}})

\* hapgen_apply_tree_mutation
hapgen_apply_tree_mutation(h, site, mut) == HapgenTraverse(h, site, <<mut.node>>)

\* for (j = 0; j < tree->num_mutations; j++): the generator and the site
\* reached
RECURSIVE HapgenTreeMutations(_, _, _)
HapgenTreeMutations(h, site, j) ==
    IF ~(j < h.tree.num_mutations) \/ h.fault = "assertion"
    THEN [hg |-> h, site |-> site]
    ELSE TheOne({HapgenTreeMutations(x, site + 1, j + 1) :
                   x \in {hapgen_apply_tree_mutation(h, site,
                                                     h.tree.mutations[j])}})

\* what one turn of the while loop does with the outcome o of
\* sparse_tree_iterator_next
HapgenTurn(h, o) ==
    IF o.fault # "none"
    THEN [ret |-> o.ret, hg |-> [h EXCEPT !.fault = "assertion"]]
    ELSE IF o.ret = 1
    THEN TheOne({[ret |-> 1, hg |-> [m.hg EXCEPT !.site = m.site]] :
                   m \in {HapgenTreeMutations(
                              [h EXCEPT !.tree_iterator = o.iter,
                                        !.tree = o.tree],
                              h.site, 0)}})
    ELSE [ret |-> o.ret, hg |-> h]

\* one turn of the while loop of hapgen_generate_all_haplotypes on the tree
\* sequence s, h.site being its local variable site: the status of
\* sparse_tree_iterator_next and the generator
hapgen_generate_all_haplotypes(h, s) ==
    TheOne({HapgenTurn(h, o) :
              o \in {sparse_tree_iterator_next(h.tree_iterator, h.tree, s)}})

\* hapgen_alloc on the tree sequence s, up to the call of
\* hapgen_generate_all_haplotypes: the status and the generator
hapgen_alloc(s) ==
    LET a == tree_sequence_alloc_sparse_tree(s, <<>>, {})
        i == sparse_tree_iterator_alloc(s, a.tree)
        words_per_row == (s.num_mutations \div HG_WORD_SIZE) + 1
        h0 == [sample_size |-> s.sample_size,
               num_loci |-> s.num_loci,
               num_mutations |-> s.num_mutations,
               tree |-> a.tree,
               tree_iterator |-> NULL,
               words_per_row |-> 0,
               haplotype_matrix |-> NULL,
               haplotype |-> NULL,
               site |-> 0,
               fault |-> "none"]
    IN  IF a.ret # 0 THEN [ret |-> a.ret, hg |-> h0]
        ELSE IF i.ret # 0 THEN [ret |-> i.ret, hg |-> h0]
        ELSE [ret |-> 0,
              hg |-> [h0 EXCEPT
                        !.tree = i.tree,
                        !.tree_iterator = i.iter,
                        !.words_per_row = words_per_row,
                        !.haplotype_matrix =
                           [j \in Indexes(words_per_row * s.sample_size) |-> {}],
                        !.haplotype = malloc(words_per_row * HG_WORD_SIZE + 1)]]

\* the characters of a buffer up to the first NUL
RECURSIVE CString(_, _)
CString(buffer, l) ==
    IF buffer[l] = NUL THEN <<>> ELSE <<buffer[l]>> \o CString(buffer, l + 1)

\* hapgen_get_haplotype: the status, the generator and the string handed to
\* the caller
hapgen_get_haplotype(h, sample_id) ==
    IF sample_id < 1 \/ sample_id > h.sample_size
    THEN [ret |-> MSP_ERR_OUT_OF_BOUNDS, hg |-> h, haplotype |-> NULL]
    ELSE LET written ==
                 [l \in DOMAIN h.haplotype |->
                    IF l < h.words_per_row * HG_WORD_SIZE
                    THEN IF (l % HG_WORD_SIZE)
                              \in h.haplotype_matrix[
                                     (sample_id - 1) * h.words_per_row
                                       + l \div HG_WORD_SIZE]
                         THEN "1" ELSE "0"
                    ELSE h.haplotype[l]]
             ended == [written EXCEPT ![h.num_mutations] = NUL]
         IN  [ret |-> 0,
              hg |-> [h EXCEPT !.haplotype = ended],
              haplotype |-> [null |-> FALSE, sample_id |-> sample_id,
                             string |-> String(CString(ended, 0))]]

\* hapgen_alloc(hg, ts), up to its call of hapgen_generate_all_haplotypes
HapgenAlloc ==
    /\ pc = "mutations"
    /\ \E o \in {hapgen_alloc(ts)} :
         /\ ret' = o.ret
         /\ hg' = o.hg
         /\ pc' = IF o.ret # 0 THEN "failed" ELSE "hapgen_trees"
    /\ haplotype' = NULL
    /\ UNCHANGED <<sim, ts, file, loaded>>
    /\ UNCHANGED <<diffVars, treeVars, bitVars, mspVars, supplied, hostVars>>

\* one turn of while ((ret = sparse_tree_iterator_next(...)) == 1) in
\* hapgen_generate_all_haplotypes; when it returns 0, so does hapgen_alloc.
\* A run whose write fell outside its buffer either is stopped there or goes
\* on with the buffers as they are.
HapgenTree ==
    /\ pc = "hapgen_trees"
    /\ \E o \in {hapgen_generate_all_haplotypes(hg, ts)} :
         /\ ret' = o.ret
         /\ hg' = o.hg
         /\ \/ /\ o.hg.fault = "none"
               /\ pc' = IF o.ret = 1 THEN "hapgen_trees" ELSE "hapgen"
            \/ /\ o.hg.fault = "out_of_bounds"
               /\ pc' \in {"aborted", "hapgen_trees"}
            \/ /\ o.hg.fault = "assertion"
               /\ pc' = "aborted"
    /\ UNCHANGED <<sim, ts, file, loaded, haplotype>>
    /\ UNCHANGED <<diffVars, treeVars, bitVars, mspVars, supplied, hostVars>>

\* one hapgen_get_haplotype(hg, j, &haplotype)
GetHaplotype ==
    /\ pc = "hapgen"
    /\ \E sample_id \in 0..(hg.sample_size + 1) :
         \E o \in {hapgen_get_haplotype(hg, sample_id)} :
           /\ ret' = o.ret
           /\ hg' = o.hg
           /\ haplotype' = o.haplotype
    /\ UNCHANGED <<pc, sim, ts, file, loaded>>
    /\ UNCHANGED <<diffVars, treeVars, bitVars, mspVars, supplied, hostVars>>

---------------------------------------------------------------------------
(* Fenwick tree (binary indexed tree).  Its implementation is not part of  *)
(* the sources; it is modelled from section 4.1: tree[j] holds the sum of  *)
(* the LowBit(j) cells ending at j.  values is the plain array the tree    *)
(* stands for, kept beside it for comparison.                              *)

\* j & -j: the lowest bit set in j
RECURSIVE LowBit(_)
LowBit(j) == IF j % 2 = 1 THEN 1 ELSE 2 * LowBit(j \div 2)

\* the highest power of two that is <= m
RECURSIVE HighBit(_)
HighBit(m) == IF m = 1 THEN 1 ELSE 2 * HighBit(m \div 2)

\* bit_alloc with max_index = m: every cell is 0
bit_alloc(m) ==
    [max_index |-> m, log_max_index |-> HighBit(m), tree |-> [j \in 1..m |-> 0]]

\* the loop of bit_increment from node j upward
RECURSIVE BitIncrementLoop(_, _, _)
BitIncrementLoop(t, j, value) ==
    IF j > t.max_index THEN t
    ELSE BitIncrementLoop([t EXCEPT !.tree[j] = @ + value], j + LowBit(j), value)

\* a faulty variant: only the node of the cell itself is updated
bit_increment_OneNode(t, index, value) == [t EXCEPT !.tree[index] = @ + value]

\* bit_increment: add value to the cell at index
bit_increment(t, index, value) == BitIncrementLoop(t, index, value)

\* bit_get_cumulative_sum: the sum of the cells 1..index
RECURSIVE bit_get_cumulative_sum(_, _)
bit_get_cumulative_sum(t, index) ==
    IF index = 0 THEN 0
    ELSE t.tree[index] + bit_get_cumulative_sum(t, index - LowBit(index))

\* bit_get_total
bit_get_total(t) == bit_get_cumulative_sum(t, t.max_index)

\* the loop of bit_get_value: the nodes between index - 1 and the parent p of
\* index are taken off the sum held at index
RECURSIVE BitValueLoop(_, _, _, _)
BitValueLoop(t, j, p, value) ==
    IF j = p THEN value
    ELSE BitValueLoop(t, j - LowBit(j), p, value - t.tree[j])

\* bit_get_value: the cell at index
bit_get_value(t, index) ==
    BitValueLoop(t, index - 1, index - LowBit(index), t.tree[index])

\* bit_set_value: make the cell at index equal to value
bit_set_value(t, index, value) ==
    bit_increment(t, index, value - bit_get_value(t, index))

\* the descent of bit_find from the highest power of two: a node is passed
\* when it exists and its sum is below what is sought
RECURSIVE BitFindLoop(_, _, _, _)
BitFindLoop(t, j, half, sum) ==
    IF half = 0 THEN j + 1
    ELSE IF j + half <= t.max_index /\ t.tree[j + half] < sum
    THEN BitFindLoop(t, j + half, half \div 2, sum - t.tree[j + half])
    ELSE BitFindLoop(t, j, half \div 2, sum)

\* a faulty variant: the descent starts one power of two too low
bit_find_LowStart(t, sum) == BitFindLoop(t, 0, t.log_max_index \div 2, sum)

\* bit_find: the smallest index whose cumulative sum is >= sum
bit_find(t, sum) == BitFindLoop(t, 0, t.log_max_index, sum)

\* bit_alloc(&t) with t.max_index = n
BitInit ==
    /\ pc = "bit"
    /\ \E n \in 1..MaxIndex :
         bit = [t |-> bit_alloc(n),
                values |-> [j \in 1..n |-> 0],
                last |-> [op |-> "bit_alloc", index |-> 0,
                          before |-> [j \in 1..n |-> 0]]]
    /\ sim = NULL
    /\ ts = NULL
    /\ ret = 0
    /\ file = NULL
    /\ loaded = NULL
    /\ diff = NULL
    /\ calls = <<>>
    /\ iter = NULL
    /\ tree = NULL
    /\ mrcas = NULL
    /\ hg = NULL
    /\ haplotype = NULL
    /\ config = NULL
    /\ msp = NULL
    /\ run = NULL
    /\ uninterrupted = NULL
    /\ supplied = NoCall
    /\ HostInit

\* what bit_get_value reports for every cell
BitValues(t) == [j \in 1..t.max_index |-> bit_get_value(t, j)]

\* bit_increment(&t, index, value), the cell staying within 0..MaxValue
BitIncrement ==
    /\ pc = "bit"
    /\ \E index \in 1..bit.t.max_index, value \in (0 - MaxValue)..MaxValue :
         /\ bit.values[index] + value \in 0..MaxValue
         /\ bit' = [t |-> bit_increment(bit.t, index, value),
                    values |-> [bit.values EXCEPT ![index] = @ + value],
                    last |-> [op |-> "bit_increment", index |-> index,
                              before |-> BitValues(bit.t)]]
    /\ UNCHANGED <<pc, sim, ts, ret, file, loaded>>
    /\ UNCHANGED <<readers, mspVars, supplied, hostVars>>

\* bit_set_value(&t, index, value)
BitSetValue ==
    /\ pc = "bit"
    /\ \E index \in 1..bit.t.max_index, value \in 0..MaxValue :
         bit' = [t |-> bit_set_value(bit.t, index, value),
                 values |-> [bit.values EXCEPT ![index] = value],
                 last |-> [op |-> "bit_set_value", index |-> index,
                           before |-> BitValues(bit.t)]]
    /\ UNCHANGED <<pc, sim, ts, ret, file, loaded>>
    /\ UNCHANGED <<readers, mspVars, supplied, hostVars>>

---------------------------------------------------------------------------
(* The coalescent simulator's event loop (sections 4.4.1 to 4.4.6).  An     *)
(* ancestor is the function giving, for each locus, the node that owns the *)
(* ancestor's material there (0 where it carries none); its segments are   *)
(* the maximal runs of loci owned by one node.  Ancestors live in numbered  *)
(* slots, and the slot is the index of the ancestor's Fenwick cell.  Time   *)
(* is counted in events: only the order of times is used.  The random       *)
(* variates are the inputs of the loop: which event fires and what it picks.*)

\* the largest number of events of one simulation
MaxEvents == 3

\* the largest number of loci of a simulation by the event loop
MaxSimLoci == 3

\* the number of slots: no more than n ancestors carry any one locus
MaxAncestors(n, m) == n * m

\* the ancestor without material: a free slot
NoMaterial(m) == [x \in Loci(m) |-> 0]

\* the loci ancestor a carries
Material(a) == {x \in DOMAIN a : a[x] # 0}

\* the slots of the live ancestors
Live(s) == {i \in DOMAIN s.ancestors : Material(s.ancestors[i]) # {}}

\* the left end of the head segment of a
HeadLeft(a) == CHOOSE x \in Material(a) : \A y \in Material(a) : x <= y

\* the right end of the last segment of a
TailRight(a) == (CHOOSE x \in Material(a) : \A y \in Material(a) : y <= x) + 1

\* the number of recombination links of a: [left, right) has right - left - 1
NumLinks(a) == IF Material(a) = {} THEN 0 ELSE TailRight(a) - HeadLeft(a) - 1

\* the lowest free slot
FreeSlot(ancestors) ==
    CHOOSE i \in DOMAIN ancestors :
      /\ Material(ancestors[i]) = {}
      /\ \A j \in DOMAIN ancestors : Material(ancestors[j]) = {} => i <= j

\* the Fenwick cell of each sample's head set to m - 1
RECURSIVE SetSampleLinks(_, _, _, _)
SetSampleLinks(t, i, n, m) ==
    IF i > n THEN t
    ELSE SetSampleLinks(bit_set_value(t, i, m - 1), i + 1, n, m)

\* the simulator at time 0 (4.4.1): n ancestors, ancestor i holding the whole
\* genome owned by node i
msp_initialise(n, m, rate) ==
    [sample_size |-> n, num_loci |-> m, scaled_recombination_rate |-> rate,
     time |-> 0, next_node |-> n + 1,
     ancestors |-> [i \in 1..MaxAncestors(n, m) |->
                      IF i <= n THEN [x \in Loci(m) |-> i] ELSE NoMaterial(m)],
     links |-> SetSampleLinks(bit_alloc(MaxAncestors(n, m)), 1, n, m),
     records |-> <<>>,
     population_models |-> <<[start_time |-> 0, type |-> "constant", param |-> 1]>>]

\* a faulty recombination: the cell of the split ancestor is not decremented
msp_recombination_event_NoDecrement(s, h) ==
    LET i == bit_find(s.links, h)
        a == s.ancestors[i]
        b == HeadLeft(a) + (h - bit_get_cumulative_sum(s.links, i - 1)) - 1
        keep == [x \in DOMAIN a |-> IF x <= b THEN a[x] ELSE 0]
        tail == [x \in DOMAIN a |-> IF x > b THEN a[x] ELSE 0]
        j == FreeSlot(s.ancestors)
    IN  [s EXCEPT !.ancestors = [@ EXCEPT ![i] = keep, ![j] = tail],
                  !.links = bit_set_value(@, j, NumLinks(tail))]

\* the recombination event (4.4.3) for the draw h in 1..L: ancestor i is
\* split at link b, the link between loci b and b + 1; the material right of
\* b becomes a new ancestor
msp_recombination_event(s, h) ==
    LET i == bit_find(s.links, h)
        a == s.ancestors[i]
        b == HeadLeft(a) + (h - bit_get_cumulative_sum(s.links, i - 1)) - 1
        keep == [x \in DOMAIN a |-> IF x <= b THEN a[x] ELSE 0]
        tail == [x \in DOMAIN a |-> IF x > b THEN a[x] ELSE 0]
        j == FreeSlot(s.ancestors)
    IN  [s EXCEPT !.ancestors = [@ EXCEPT ![i] = keep, ![j] = tail],
                  !.links = bit_set_value(bit_set_value(@, i, NumLinks(keep)),
                                          j, NumLinks(tail))]

\* the loci both ancestors carry
Overlap(xa, ya) == Material(xa) \cap Material(ya)

\* no ancestor of the population carries locus l: once xa and ya have merged
\* there, the locus is fully ancestral to all n samples
FullyAncestral(population, l) ==
    \A k \in DOMAIN population : population[k][l] = 0

\* a faulty variant: every locus is taken for a sub-interval of its own
SameSubInterval_Never(population, xa, ya, l) == FALSE

\* loci l - 1 and l lie in one overlapping sub-interval of xa and ya
SameSubInterval(population, xa, ya, l) ==
    /\ l - 1 \in Overlap(xa, ya)
    /\ l \in Overlap(xa, ya)
    /\ xa[l - 1] = xa[l]
    /\ ya[l - 1] = ya[l]
    /\ FullyAncestral(population, l - 1) <=> FullyAncestral(population, l)

\* the right end of the overlapping sub-interval that holds locus l
RECURSIVE SubIntervalRight(_, _, _, _)
SubIntervalRight(population, xa, ya, l) ==
    IF l + 1 \in DOMAIN xa /\ SameSubInterval(population, xa, ya, l + 1)
    THEN SubIntervalRight(population, xa, ya, l + 1)
    ELSE l + 1

\* the merge of one overlapping sub-interval [l, r): it gets the fresh node
\* u = next_node++ and a coalescence record; its material goes to the merged
\* ancestor z owned by u, unless the sub-interval is now fully ancestral
MergeSubInterval(acc, population, xa, ya, l, time) ==
    LET r == SubIntervalRight(population, xa, ya, l)
        u == acc.next_node
        cr == [left |-> l, right |-> r, node |-> u,
               children |-> <<Min(xa[l], ya[l]), GSL_MAX(xa[l], ya[l])>>,
               time |-> time]
    IN  [next_node |-> u + 1,
         records |-> Append(acc.records, cr),
         z |-> [x \in DOMAIN acc.z |->
                  IF l <= x /\ x < r
                  THEN (IF FullyAncestral(population, l) THEN 0 ELSE u)
                  ELSE acc.z[x]]]

\* the merge of the segment lists of xa and ya from locus l rightward: what
\* only one of them carries passes to z unchanged
RECURSIVE MergeLoop(_, _, _, _, _, _)
MergeLoop(acc, population, xa, ya, l, time) ==
    IF l \notin DOMAIN xa THEN acc
    ELSE IF l \notin Overlap(xa, ya)
    THEN MergeLoop([acc EXCEPT !.z[l] = xa[l] + ya[l]],
                   population, xa, ya, l + 1, time)
    ELSE IF SameSubInterval(population, xa, ya, l)
    THEN MergeLoop(acc, population, xa, ya, l + 1, time)
    ELSE MergeLoop(MergeSubInterval(acc, population, xa, ya, l, time),
                   population, xa, ya, l + 1, time)

\* the coalescence event (4.4.4) of the live ancestors in slots x and y: both
\* leave the population and their cells are zeroed; the merged ancestor, if
\* it carries anything, is reinserted with its cell
msp_coalescence_event(s, x, y) ==
    TheOne({
      TheOne({
        TheOne({
          [s EXCEPT !.next_node = acc.next_node,
                    !.records = acc.records,
                    !.ancestors = IF Material(acc.z) = {} THEN population
                                  ELSE [population EXCEPT ![FreeSlot(population)] = acc.z],
                    !.links = IF Material(acc.z) = {} THEN links
                              ELSE bit_increment(links, FreeSlot(population), NumLinks(acc.z))] :
          acc \in {MergeLoop([next_node |-> s.next_node, records |-> s.records,
                              z |-> NoMaterial(s.num_loci)],
                             population, s.ancestors[x], s.ancestors[y],
                             FirstLocus, s.time)}}) :
        links \in {bit_set_value(bit_set_value(s.links, x, 0), y, 0)}}) :
      population \in {[s.ancestors EXCEPT ![x] = NoMaterial(s.num_loci),
                                         ![y] = NoMaterial(s.num_loci)]}})

\* the draw when no event fires
NoVariate == [event |-> "none", h |-> 0, x |-> 0, y |-> 0]

\* the draws that fire an event in s: a recombination at one of the
\* L = total links when the rate is positive, or a coalescence of two live
\* ancestors
Variates(s) ==
    {[event |-> "recombination", h |-> h, x |-> 0, y |-> 0] :
       h \in 1..(IF s.scaled_recombination_rate > 0
                 THEN bit_get_total(s.links) ELSE 0)}
    \cup {[event |-> "coalescence", h |-> 0, x |-> p[1], y |-> p[2]] :
            p \in {q \in Live(s) \X Live(s) : q[1] < q[2]}}

\* steps 4 and 5 of the loop: advance the time to the event and dispatch it
msp_event(s, v) ==
    IF v.event = "recombination"
    THEN msp_recombination_event([s EXCEPT !.time = @ + 1], v.h)
    ELSE IF v.event = "coalescence"
    THEN msp_coalescence_event([s EXCEPT !.time = @ + 1], v.x, v.y)
    ELSE s

\* a faulty iteration: the time is advanced to the next event before the
\* deadline is looked at, and stays advanced when the run pauses
msp_run_iteration_LateCheck(s, r, v) ==
    IF Live(s) = {}
    THEN [running |-> FALSE, ret |-> 0, msp |-> s]
    ELSE IF s.time >= r.max_time \/ r.events >= r.max_events
    THEN [running |-> FALSE, ret |-> 1, msp |-> [s EXCEPT !.time = @ + 1]]
    ELSE [running |-> TRUE, ret |-> 0, msp |-> msp_event(s, v)]

\* one iteration of the loop of msp_run under the caps r, v being the draw:
\* the run returns 0 when no ancestor is left, returns 1 ("paused, not
\* complete") without touching the state when the deadline or the step cap
\* has tripped, and otherwise fires the event
msp_run_iteration(s, r, v) ==
    IF Live(s) = {}
    THEN [running |-> FALSE, ret |-> 0, msp |-> s]
    ELSE IF s.time >= r.max_time \/ r.events >= r.max_events
    THEN [running |-> FALSE, ret |-> 1, msp |-> s]
    ELSE [running |-> TRUE, ret |-> 0, msp |-> msp_event(s, v)]

\* the caps a caller may pass; MaxEvents + 1 stands for DBL_MAX and ULONG_MAX,
\* which never trip
RunCaps ==
    {[max_time |-> MaxEvents + 1, max_events |-> MaxEvents + 1, events |-> 0],
     [max_time |-> MaxEvents + 1, max_events |-> 1, events |-> 0],
     [max_time |-> 2, max_events |-> MaxEvents + 1, events |-> 0]}

\* the simulator configured and not yet run
MspInit ==
    /\ pc = "msp"
    /\ \E n \in 2..MaxSampleSize, m \in 1..MaxSimLoci, rate \in 0..1 :
         /\ msp = msp_initialise(n, m, rate)
         /\ uninterrupted = msp_initialise(n, m, rate)
    /\ run = [max_time |-> 0, max_events |-> 0, events |-> 0]
    /\ config = NULL
    /\ ret = 0
    /\ sim = NULL
    /\ ts = NULL
    /\ file = NULL
    /\ loaded = NULL
    /\ diff = NULL
    /\ calls = <<>>
    /\ iter = NULL
    /\ tree = NULL
    /\ mrcas = NULL
    /\ hg = NULL
    /\ haplotype = NULL
    /\ bit = NULL
    /\ supplied = NoCall
    /\ HostInit

\* msp_run(msp, max_time, max_events) is called, for the first time or again
\* after a pause
MspRun ==
    /\ pc = "msp"
    /\ \E r \in RunCaps : run' = r
    /\ pc' = "msp_run"
    /\ UNCHANGED <<config, msp, uninterrupted>>
    /\ UNCHANGED <<sim, ts, ret, file, loaded>>
    /\ UNCHANGED <<readers, bitVars, supplied, hostVars>>

\* an iteration that fires an event; the uninterrupted run gets the same draw
MspEvent ==
    /\ pc = "msp_run"
    /\ msp.time < MaxEvents
    /\ \E v \in Variates(msp) :
         \E o \in {msp_run_iteration(msp, run, v)} :
           /\ o.running
           /\ msp' = o.msp
           /\ uninterrupted' = msp_event(uninterrupted, v)
    /\ run' = [run EXCEPT !.events = @ + 1]
    /\ UNCHANGED <<pc, config>>
    /\ UNCHANGED <<sim, ts, ret, file, loaded>>
    /\ UNCHANGED <<readers, bitVars, supplied, hostVars>>

\* the iteration that ends the call: complete, or paused
MspReturn ==
    /\ pc = "msp_run"
    /\ \E o \in {msp_run_iteration(msp, run, NoVariate)} :
         /\ ~o.running
         /\ msp' = o.msp
         /\ ret' = o.ret
         /\ pc' = IF o.ret = 0 THEN "msp_complete" ELSE "msp"
    /\ UNCHANGED <<config, run, uninterrupted>>
    /\ UNCHANGED <<sim, ts, file, loaded>>
    /\ UNCHANGED <<readers, bitVars, supplied, hostVars>>

\* tree_sequence_create(tree_seq, msp) on the completed simulation
MspCreate ==
    /\ pc = "msp_complete"
    /\ msp_get_num_coalescence_records(msp) > 0
    /\ \E t \in tree_sequence_create(msp) : ts' = t
    /\ ret' = 0
    /\ pc' = "ts"
    \* msp_run has returned: its arguments and its event count are gone
    /\ run' = [max_time |-> 0, max_events |-> 0, events |-> 0]
    /\ UNCHANGED <<config, msp, uninterrupted>>
    /\ UNCHANGED <<sim, file, loaded>>
    /\ UNCHANGED <<readers, bitVars, supplied, hostVars>>

---------------------------------------------------------------------------
(* The driver's configuration: the population models *)

\* the largest number of population models in a configuration file, and the
\* largest time of one
MaxModels == 3
MaxStartTime == 2

\* the model a simulator adds: rejected when it starts before the last one
msp_add_population_model(s, type, time, param) ==
    IF time < s.population_models[Len(s.population_models)].start_time
    THEN [ret |-> MSP_ERR_UNSORTED_POP_MODELS, msp |-> s]
    ELSE [ret |-> 0,
          msp |-> [s EXCEPT !.population_models =
                      Append(@, [start_time |-> time, type |-> type, param |-> param])]]

msp_add_constant_population_model(s, time, param) ==
    msp_add_population_model(s, "constant", time, param)

msp_add_exponential_population_model(s, time, param) ==
    msp_add_population_model(s, "exponential", time, param)

\* a faulty loop turn: a failed msp_add_ call does not leave the loop
ReadPopulationModelsTurn_NoGoto(s, c) ==
    LET e == c.population_models[c.j + 1]
    IN  IF e.time < 0 \/ e.type \notin {"constant", "exponential"}
        THEN [exit |-> TRUE, out |-> FALSE, msp |-> s, config |-> c]
        ELSE LET o == IF e.type = "constant"
                      THEN msp_add_constant_population_model(s, e.time, e.param)
                      ELSE msp_add_exponential_population_model(s, e.time, e.param)
             IN  [exit |-> FALSE, out |-> FALSE, msp |-> o.msp,
                  config |-> [c EXCEPT !.ret = o.ret, !.j = @ + 1]]

\* one turn of the loop of read_population_models on element j of the list:
\* fatal_error ends the process for a negative time or an unknown type; a
\* status other than 0 from msp_add_ leaves the loop (goto out)
ReadPopulationModelsTurn(s, c) ==
    LET e == c.population_models[c.j + 1]
    IN  IF e.time < 0 \/ e.type \notin {"constant", "exponential"}
        THEN [exit |-> TRUE, out |-> FALSE, msp |-> s, config |-> c]
        ELSE LET o == IF e.type = "constant"
                      THEN msp_add_constant_population_model(s, e.time, e.param)
                      ELSE msp_add_exponential_population_model(s, e.time, e.param)
             IN  [exit |-> FALSE, out |-> o.ret # 0, msp |-> o.msp,
                  config |-> [c EXCEPT !.ret = o.ret,
                                       !.j = IF o.ret # 0 THEN @ ELSE @ + 1]]

\* the population_models lists a configuration file may hold
PopulationModelLists ==
    UNION {[1..c -> [time : (0 - 1)..MaxStartTime,
                     type : {"constant", "exponential", "linear"},
                     param : {1}]] : c \in 0..MaxModels}

\* get_configuration has set the simulator's parameters and is about to call
\* read_population_models
ConfigInit ==
    /\ pc = "config"
    /\ \E l \in PopulationModelLists :
         config = [population_models |-> l, j |-> 0, ret |-> 0]
    /\ msp = msp_initialise(2, 1, 0)
    /\ uninterrupted = msp_initialise(2, 1, 0)
    /\ run = [max_time |-> 0, max_events |-> 0, events |-> 0]
    /\ ret = 0
    /\ sim = NULL
    /\ ts = NULL
    /\ file = NULL
    /\ loaded = NULL
    /\ diff = NULL
    /\ calls = <<>>
    /\ iter = NULL
    /\ tree = NULL
    /\ mrcas = NULL
    /\ hg = NULL
    /\ haplotype = NULL
    /\ bit = NULL
    /\ supplied = NoCall
    /\ HostInit

\* a turn of the loop of read_population_models
ReadPopulationModel ==
    /\ pc = "config"
    /\ config.j < Len(config.population_models)
    /\ \E o \in {ReadPopulationModelsTurn(msp, config)} :
         /\ msp' = o.msp
         /\ uninterrupted' = o.msp
         /\ config' = o.config
         /\ pc' = IF o.exit THEN "exit" ELSE IF o.out THEN "configured" ELSE "config"
         /\ ret' = IF o.out THEN o.config.ret ELSE ret
    /\ UNCHANGED run
    /\ UNCHANGED <<sim, ts, file, loaded>>
    /\ UNCHANGED <<readers, bitVars, supplied, hostVars>>

\* the loop is through the list: read_population_models returns ret, and
\* get_configuration returns it to run_simulate
GetConfigurationReturn ==
    /\ pc = "config"
    /\ config.j = Len(config.population_models)
    /\ ret' = config.ret
    /\ pc' = "configured"
    /\ UNCHANGED <<sim, ts, file, loaded>>
    /\ UNCHANGED <<readers, bitVars, mspVars, supplied, hostVars>>

\* run_simulate after get_configuration: goto out on an error, or
\* msp_run(msp, DBL_MAX, ULONG_MAX)
RunSimulate ==
    /\ pc = "configured"
    /\ IF ret # 0
       THEN pc' = "out" /\ UNCHANGED run
       ELSE /\ pc' = "msp_run"
            /\ run' = [max_time |-> MaxEvents + 1, max_events |-> MaxEvents + 1,
                       events |-> 0]
    /\ UNCHANGED <<config, msp, uninterrupted>>
    /\ UNCHANGED <<sim, ts, ret, file, loaded>>
    /\ UNCHANGED <<readers, bitVars, supplied, hostVars>>

\* run_simulate after tree_sequence_load: goto out on an error, else
\* print_tree_sequence and on to out
RunSimulateOut ==
    /\ pc = "loaded"
    /\ pc' = "out"
    /\ UNCHANGED <<sim, ts, ret, file, loaded>>
    /\ UNCHANGED <<readers, bitVars, mspVars, supplied, hostVars>>

\* the statuses of <stdlib.h> that main and fatal_error end the process with
EXIT_SUCCESS == 0
EXIT_FAILURE == 1

\* fatal_error: the message, then exit(EXIT_FAILURE)
FatalError ==
    /\ pc = "exit"
    /\ process' = [exited |-> TRUE, status |-> EXIT_FAILURE]
    /\ pc' = "exited"
    /\ UNCHANGED <<handles, fileVars>>
    /\ UNCHANGED <<sim, ts, ret, file, loaded>>
    /\ UNCHANGED <<readers, bitVars, mspVars, supplied>>

\* run_simulate from out: the objects are freed, "error occured" is printed
\* if ret != 0, and the function, which is void, returns; main then returns
\* EXIT_SUCCESS
MainReturn ==
    /\ pc = "out"
    /\ process' = [exited |-> TRUE, status |-> EXIT_SUCCESS]
    /\ pc' = "exited"
    /\ UNCHANGED <<handles, fileVars>>
    /\ UNCHANGED <<sim, ts, ret, file, loaded>>
    /\ UNCHANGED <<readers, bitVars, mspVars, supplied>>

---------------------------------------------------------------------------
(* The legacy tree file (tree_file.c).  The file on disk is the sequence   *)
(* of its bytes, each 0..255; a FILE is its position in that sequence.     *)
(* Reads and writes of the stream are taken to succeed whenever the bytes  *)
(* are there; malloc is taken to succeed.                                  *)

\* the magic number 0xa52cd4a4 as the little-endian bytes of a uint32_t
MSP_TREE_FILE_MAGIC == <<164, 212, 44, 165>>
MSP_TREE_FILE_VERSION == 1
MSP_TREE_FILE_HEADER_SIZE == 28
MSP_NUM_CR_ELEMENTS == 5

MSP_FLAGS_COMPLETE == 1
MSP_FLAGS_SORTED == 2

\* sizeof(uint32_t)
SizeofU32 == 4

\* sizeof(uint32_t record[MSP_NUM_CR_ELEMENTS]): a record on disk
RecordSize == MSP_NUM_CR_ELEMENTS * SizeofU32

\* a uint32_t as it lies in memory and in the file: little-endian bytes
EncodeU32(v) ==
    <<v % 256, (v \div 256) % 256, (v \div 65536) % 256, (v \div 16777216) % 256>>

\* the uint32_t that four bytes hold
DecodeU32(b) == b[1] + 256 * b[2] + 65536 * b[3] + 16777216 * b[4]

\* a uint64_t below 2^32 as eight bytes, and back
EncodeU64(v) == EncodeU32(v) \o <<0, 0, 0, 0>>

DecodeU64(b) == DecodeU32(SubSeq(b, 1, SizeofU32))

\* the union conv: the bits of the float that holds a time
FloatBits(time) ==
    CASE time = 0 -> 0
      [] time = 1 -> 1065353216
      [] time = 2 -> 1073741824
      [] OTHER -> 1077936128

\* the union conv read the other way: the float that the bits are, and for
\* bits that are none of the times of the model the bits themselves
FloatValue(bits) ==
    CASE bits = 0 -> 0
      [] bits = 1065353216 -> 1
      [] bits = 1073741824 -> 2
      [] bits = 1077936128 -> 3
      [] OTHER -> bits

\* bit b (1 or 2) of the flags word
HasFlag(flags, b) == (flags \div b) % 2 = 1

\* flags | b
SetFlag(flags, b) == IF HasFlag(flags, b) THEN flags ELSE flags + b

\* count zero bytes, as calloc gives
ZeroBytes(count) == [j \in 1..count |-> 0]

\* fwrite of bytes at position pos of the file d: the file afterwards
fwrite(d, pos, bytes) ==
    [j \in 1..(IF pos + Len(bytes) > Len(d) THEN pos + Len(bytes) ELSE Len(d)) |->
       IF pos < j /\ j <= pos + Len(bytes) THEN bytes[j - pos] ELSE d[j]]

\* fread(ptr, size, 1, f) at position pos: whether the item is read
CanRead(d, pos, size) == size > 0 /\ pos + size <= Len(d)

\* the bytes such a read delivers
fread(d, pos, size) == SubSeq(d, pos + 1, pos + size)

\* decode_coalescence_record: the record held by the 20 bytes
decode_coalescence_record(record) ==
    [left |-> DecodeU32(SubSeq(record, 1, 4)),
     children |-> <<DecodeU32(SubSeq(record, 5, 8)),
                    DecodeU32(SubSeq(record, 9, 12))>>,
     parent |-> DecodeU32(SubSeq(record, 13, 16)),
     time |-> FloatValue(DecodeU32(SubSeq(record, 17, 20)))]

\* encode_coalescence_record: the 20 bytes written for cr
encode_coalescence_record(cr) ==
    EncodeU32(cr.left) \o EncodeU32(cr.children[1]) \o EncodeU32(cr.children[2])
      \o EncodeU32(cr.parent) \o EncodeU32(FloatBits(cr.time))

\* memset(self, 0, sizeof(tree_file_t)), then the mode
ZeroTreeFile(mode) ==
    [mode |-> mode, file |-> NULL, sample_size |-> 0, num_loci |-> 0,
     flags |-> 0, metadata_offset |-> 0, coalescence_record_offset |-> 0,
     metadata |-> NULL]

\* a FILE at position pos
Stream(pos) == [null |-> FALSE, pos |-> pos]

\* the 28 bytes tree_file_write_header writes for the handle f
HeaderBytes(f) ==
    MSP_TREE_FILE_MAGIC \o EncodeU32(MSP_TREE_FILE_VERSION)
      \o EncodeU32(f.sample_size) \o EncodeU32(f.num_loci)
      \o EncodeU32(f.flags) \o EncodeU64(f.metadata_offset)

\* tree_file_read_info on the handle f, whose stream is at the start of the
\* file d: the status and the handle, its stream left after the metadata
tree_file_read_info(f, d) ==
    IF ~CanRead(d, 0, MSP_TREE_FILE_HEADER_SIZE)
    THEN [ret |-> MSP_ERR_IO, tf |-> [f EXCEPT !.file = Stream(Len(d))]]
    ELSE IF fread(d, 0, SizeofU32) # MSP_TREE_FILE_MAGIC
    THEN [ret |-> MSP_ERR_FILE_FORMAT,
          tf |-> [f EXCEPT !.file = Stream(MSP_TREE_FILE_HEADER_SIZE)]]
    ELSE IF DecodeU32(fread(d, 4, SizeofU32)) # MSP_TREE_FILE_VERSION
    THEN [ret |-> MSP_ERR_FILE_VERSION,
          tf |-> [f EXCEPT !.file = Stream(MSP_TREE_FILE_HEADER_SIZE)]]
    ELSE TheOne({
        [ret |-> IF CanRead(d, metadata_offset, Len(d) - metadata_offset)
                 THEN 0 ELSE MSP_ERR_IO,
         tf |-> [f EXCEPT
                   !.sample_size = DecodeU32(fread(d, 8, SizeofU32)),
                   !.num_loci = DecodeU32(fread(d, 12, SizeofU32)),
                   !.flags = DecodeU32(fread(d, 16, SizeofU32)),
                   !.metadata_offset = metadata_offset,
                   !.coalescence_record_offset = MSP_TREE_FILE_HEADER_SIZE,
                   !.metadata = [null |-> FALSE,
                                 chars |-> fread(d, metadata_offset,
                                                 Len(d) - metadata_offset)],
                   !.file = Stream(Len(d))]]
        : metadata_offset \in {DecodeU64(fread(d, 20, 8))}})

\* tree_file_write_header: the file with the handle's header at its start;
\* the stream is left after the header
tree_file_write_header(f, d) ==
    [ret |-> 0,
     tf |-> [f EXCEPT !.file = Stream(MSP_TREE_FILE_HEADER_SIZE)],
     disk |-> fwrite(d, 0, HeaderBytes(f))]

\* tree_file_open_read_mode: fopen(filename, "r") fails when there is no file
tree_file_open_read_mode(f, d) ==
    IF d = NULL THEN [ret |-> MSP_ERR_IO, tf |-> f, disk |-> d]
    ELSE TheOne({
        [ret |-> info.ret,
         tf |-> IF info.ret # 0 THEN info.tf
                ELSE [info.tf EXCEPT
                        !.file = Stream(info.tf.coalescence_record_offset)],
         disk |-> d]
        : info \in {tree_file_read_info([f EXCEPT !.file = Stream(0)], d)}})

\* tree_file_open_write_mode: fopen(filename, "w") empties the file, and a
\* temporary header of zero bytes is written
tree_file_open_write_mode(f, d) ==
    [ret |-> 0,
     tf |-> [f EXCEPT !.file = Stream(MSP_TREE_FILE_HEADER_SIZE)],
     disk |-> ZeroBytes(MSP_TREE_FILE_HEADER_SIZE)]

\* tree_file_open_update_mode: fopen(filename, "r+"), then the header
tree_file_open_update_mode(f, d) ==
    IF d = NULL THEN [ret |-> MSP_ERR_IO, tf |-> f, disk |-> d]
    ELSE TheOne({[ret |-> info.ret, tf |-> info.tf, disk |-> d]
        : info \in {tree_file_read_info([f EXCEPT !.file = Stream(0)], d)}})

\* tree_file_open(self, filename, mode) with the file d (NULL: none) on disk
tree_file_open(d, mode) ==
    CASE mode = "r" -> tree_file_open_read_mode(ZeroTreeFile(mode), d)
      [] mode = "w" -> tree_file_open_write_mode(ZeroTreeFile(mode), d)
      [] mode = "u" -> tree_file_open_update_mode(ZeroTreeFile(mode), d)
      [] OTHER -> [ret |-> MSP_ERR_BAD_MODE, tf |-> ZeroTreeFile(mode),
                   disk |-> d]

tree_file_check_read_mode(f) == f.mode = "r"

tree_file_check_write_mode(f) == f.mode = "w"

tree_file_check_update_mode(f) == f.mode = "u"

\* tree_file_set_sample_size(self, sample_size)
tree_file_set_sample_size(f, d, sample_size) ==
    IF ~tree_file_check_write_mode(f)
    THEN [ret |-> MSP_ERR_BAD_MODE, tf |-> f, disk |-> d]
    ELSE [ret |-> 0, tf |-> [f EXCEPT !.sample_size = sample_size], disk |-> d]

\* tree_file_set_num_loci had it no mode check
tree_file_set_num_loci_NoModeCheck(f, d, num_loci) ==
    [ret |-> 0, tf |-> [f EXCEPT !.num_loci = num_loci], disk |-> d]

\* tree_file_set_num_loci(self, num_loci)
tree_file_set_num_loci(f, d, num_loci) ==
    IF ~tree_file_check_write_mode(f)
    THEN [ret |-> MSP_ERR_BAD_MODE, tf |-> f, disk |-> d]
    ELSE [ret |-> 0, tf |-> [f EXCEPT !.num_loci = num_loci], disk |-> d]

\* tree_file_append_record(self, cr): the record's 20 bytes go to the stream
tree_file_append_record(f, d, cr) ==
    IF ~tree_file_check_write_mode(f)
    THEN [ret |-> MSP_ERR_BAD_MODE, tf |-> f, disk |-> d]
    ELSE [ret |-> 0,
          tf |-> [f EXCEPT !.file = Stream(f.file.pos + RecordSize)],
          disk |-> fwrite(d, f.file.pos, encode_coalescence_record(cr))]

\* msp_write_metadata(msp, f): the JSON text of the run goes to the stream
msp_write_metadata(d, pos, text) == [ret |-> 0, disk |-> fwrite(d, pos, text)]

\* tree_file_finalise(self, msp), text being the metadata of msp
tree_file_finalise(f, d, text) ==
    IF ~tree_file_check_write_mode(f)
    THEN [ret |-> MSP_ERR_BAD_MODE, tf |-> f, disk |-> d]
    ELSE tree_file_write_header(
           [f EXCEPT !.metadata_offset = f.file.pos,
                     !.flags = SetFlag(f.flags, MSP_FLAGS_COMPLETE)],
           msp_write_metadata(d, f.file.pos, text).disk)

\* tree_file_next_record(self, r): r is NULL when the record is not written.
\* A read that comes short leaves the stream at the end of the file.
tree_file_next_record(f, d) ==
    IF ~tree_file_check_read_mode(f)
    THEN [ret |-> MSP_ERR_BAD_MODE, tf |-> f, disk |-> d, r |-> NULL]
    ELSE IF ~CanRead(d, f.file.pos, RecordSize)
    THEN [ret |-> MSP_ERR_IO, tf |-> [f EXCEPT !.file = Stream(Len(d))],
          disk |-> d, r |-> NULL]
    ELSE [ret |-> IF f.file.pos + RecordSize = f.metadata_offset THEN 0 ELSE 1,
          tf |-> [f EXCEPT !.file = Stream(f.file.pos + RecordSize)],
          disk |-> d,
          r |-> decode_coalescence_record(fread(d, f.file.pos, RecordSize))]

\* sizeof(coalescence_record_t), the stride tree_file_sort sorts with: the
\* size of a record of the file
SizeofCoalescenceRecord == RecordSize

\* cmp_coalescence_record on two items of the buffer: left is the first field
cmp_coalescence_record(a, b) ==
    (IF DecodeU32(SubSeq(a, 1, SizeofU32)) > DecodeU32(SubSeq(b, 1, SizeofU32))
     THEN 1 ELSE 0)
    - (IF DecodeU32(SubSeq(a, 1, SizeofU32)) < DecodeU32(SubSeq(b, 1, SizeofU32))
       THEN 1 ELSE 0)

\* the items of a sequence of byte sequences, one after the other
RECURSIVE Concat(_)
Concat(items) ==
    IF items = <<>> THEN <<>> ELSE Head(items) \o Concat(Tail(items))

\* qsort(buff, num_records, sizeof(coalescence_record_t), cmp): every order
\* of the buffer that qsort may leave, the bytes after the last item as
\* they were
qsort_records(buff, num_records) ==
    {Concat([k \in 1..num_records |->
               SubSeq(buff, (order[k] - 1) * SizeofCoalescenceRecord + 1,
                      order[k] * SizeofCoalescenceRecord)])
       \o SubSeq(buff, num_records * SizeofCoalescenceRecord + 1, Len(buff))
     : order \in qsort(1..num_records,
         {p \in (1..num_records) \X (1..num_records) :
            cmp_coalescence_record(
              SubSeq(buff, (p[1] - 1) * SizeofCoalescenceRecord + 1,
                     p[1] * SizeofCoalescenceRecord),
              SubSeq(buff, (p[2] - 1) * SizeofCoalescenceRecord + 1,
                     p[2] * SizeofCoalescenceRecord)) <= 0})}

\* tree_file_sort did it assign the SORTED flag instead of or-ing it in
tree_file_sort_FlagsAssigned(f, d) ==
    IF ~tree_file_check_update_mode(f)
    THEN {[ret |-> MSP_ERR_BAD_MODE, tf |-> f, disk |-> d]}
    ELSE IF f.metadata_offset - f.coalescence_record_offset = 0
    THEN {[ret |-> MSP_ERR_IO,
           tf |-> [f EXCEPT !.file = Stream(f.coalescence_record_offset)],
           disk |-> d]}
    ELSE {tree_file_write_header([f EXCEPT !.flags = MSP_FLAGS_SORTED], d)}

\* tree_file_sort(self): every outcome.  malloc(0) may return NULL; where it
\* does not, the read of an item of no bytes reads no item.
tree_file_sort(f, d) ==
    IF ~tree_file_check_update_mode(f)
    THEN {[ret |-> MSP_ERR_BAD_MODE, tf |-> f, disk |-> d]}
    ELSE IF f.metadata_offset - f.coalescence_record_offset = 0
    THEN {[ret |-> MSP_ERR_NO_MEMORY, tf |-> f, disk |-> d],
          [ret |-> MSP_ERR_IO,
           tf |-> [f EXCEPT !.file = Stream(f.coalescence_record_offset)],
           disk |-> d]}
    ELSE {tree_file_write_header(
            [f EXCEPT !.flags = SetFlag(f.flags, MSP_FLAGS_SORTED)],
            fwrite(d, f.coalescence_record_offset, sorted))
          : sorted \in qsort_records(
              fread(d, f.coalescence_record_offset,
                    f.metadata_offset - f.coalescence_record_offset),
              (f.metadata_offset - f.coalescence_record_offset)
                \div SizeofCoalescenceRecord)}

\* tree_file_is_complete(self)
tree_file_is_complete(f) == IF HasFlag(f.flags, MSP_FLAGS_COMPLETE) THEN 1 ELSE 0

\* tree_file_is_sorted(self)
tree_file_is_sorted(f) == IF HasFlag(f.flags, MSP_FLAGS_SORTED) THEN 2 ELSE 0

\* the modes tree_file_open is called with: the three it knows, and one more
TreeFileModes == {"r", "w", "u", "a"}

\* the records the writer appends
TreeFileRecords ==
    {[left |-> 1, children |-> <<1, 2>>, parent |-> 4, time |-> 1],
     [left |-> 0, children |-> <<3, 4>>, parent |-> 5, time |-> 2]}

\* a JSON text of pad + 2 characters: the braces with pad spaces between
JsonText(pad) == <<123>> \o [j \in 1..pad |-> 32] \o <<125>>

\* the metadata texts of the runs: shorter than a record, as long, longer
TreeFileMetadata ==
    {JsonText(0), JsonText(RecordSize - 2), JsonText(RecordSize - 1)}

\* the process before it has opened a tree file: none on disk
TreeFileInit ==
    /\ pc = "tf_closed"
    /\ sim = NULL
    /\ ts = NULL
    /\ ret = 0
    /\ file = NULL
    /\ loaded = NULL
    /\ diff = NULL
    /\ calls = <<>>
    /\ iter = NULL
    /\ tree = NULL
    /\ mrcas = NULL
    /\ hg = NULL
    /\ haplotype = NULL
    /\ bit = NULL
    /\ config = NULL
    /\ msp = NULL
    /\ run = NULL
    /\ uninterrupted = NULL
    /\ supplied = NoCall
    /\ HostInit

\* the variables no tree file operation touches
notFileVars == <<sim, ts, file, loaded, readers, bitVars, mspVars, supplied,
                 handles, process>>

\* tree_file_open(&tf, filename, mode).  A handle whose file could not be
\* opened or read is only closed.
TreeFileOpen ==
    /\ pc = "tf_closed"
    /\ \E mode \in TreeFileModes : \E o \in {tree_file_open(disk, mode)} :
         /\ tf' = o.tf
         /\ disk' = o.disk
         /\ ret' = o.ret
         /\ pc' = IF o.ret \in {0, MSP_ERR_BAD_MODE} THEN "tf_open"
                  ELSE "tf_failed"
         /\ tf_calls' = IF mode = "w"
                        THEN [NoTreeFileCalls EXCEPT !.op = "open"]
                        ELSE [tf_calls EXCEPT !.op = "open",
                                              !.delivered = <<>>,
                                              !.reading = TRUE]
    /\ UNCHANGED notFileVars

\* tree_file_set_sample_size(&tf, sample_size)
TreeFileSetSampleSize ==
    /\ pc = "tf_open"
    /\ \E sample_size \in 2..MaxSampleSize :
       \E o \in {tree_file_set_sample_size(tf, disk, sample_size)} :
         /\ tf' = o.tf
         /\ disk' = o.disk
         /\ ret' = o.ret
    /\ tf_calls' = [tf_calls EXCEPT !.op = "set_sample_size"]
    /\ UNCHANGED <<pc, notFileVars>>

\* tree_file_set_num_loci(&tf, num_loci)
TreeFileSetNumLoci ==
    /\ pc = "tf_open"
    /\ \E num_loci \in 1..MaxNumLoci :
       \E o \in {tree_file_set_num_loci(tf, disk, num_loci)} :
         /\ tf' = o.tf
         /\ disk' = o.disk
         /\ ret' = o.ret
    /\ tf_calls' = [tf_calls EXCEPT !.op = "set_num_loci"]
    /\ UNCHANGED <<pc, notFileVars>>

\* tree_file_append_record(&tf, &cr).  The writer appends at most
\* MaxAppended records, all of them before it finalises.
TreeFileAppendRecord ==
    /\ pc = "tf_open"
    /\ tree_file_check_write_mode(tf) =>
         Len(tf_calls.appended) < MaxAppended /\ ~tf_calls.finalised
    /\ \E cr \in TreeFileRecords :
       \E o \in {tree_file_append_record(tf, disk, cr)} :
         /\ tf' = o.tf
         /\ disk' = o.disk
         /\ ret' = o.ret
         /\ tf_calls' = [tf_calls EXCEPT
                           !.op = "append_record",
                           !.appended = IF o.ret = 0 THEN Append(@, cr) ELSE @]
    /\ UNCHANGED <<pc, notFileVars>>

\* tree_file_finalise(&tf, msp).  The writer finalises once.
TreeFileFinalise ==
    /\ pc = "tf_open"
    /\ tree_file_check_write_mode(tf) => ~tf_calls.finalised
    /\ \E text \in TreeFileMetadata :
       \E o \in {tree_file_finalise(tf, disk, text)} :
         /\ tf' = o.tf
         /\ disk' = o.disk
         /\ ret' = o.ret
         /\ tf_calls' = [tf_calls EXCEPT
                           !.op = "finalise",
                           !.finalised = @ \/ o.ret = 0]
    /\ UNCHANGED <<pc, notFileVars>>

\* tree_file_next_record(&tf, &cr), called as tree_file_print_records calls
\* it: again while it returns 1
TreeFileNextRecord ==
    /\ pc = "tf_open"
    /\ tree_file_check_read_mode(tf) => tf_calls.reading
    /\ \E o \in {tree_file_next_record(tf, disk)} :
         /\ tf' = o.tf
         /\ disk' = o.disk
         /\ ret' = o.ret
         /\ tf_calls' = [tf_calls EXCEPT
                           !.op = "next_record",
                           !.delivered = IF o.ret >= 0
                                         THEN Append(@, [ret |-> o.ret, r |-> o.r])
                                         ELSE @,
                           !.reading = IF tree_file_check_read_mode(tf)
                                       THEN o.ret = 1 ELSE @]
    /\ UNCHANGED <<pc, notFileVars>>

\* tree_file_sort(&tf)
TreeFileSort ==
    /\ pc = "tf_open"
    /\ \E o \in tree_file_sort(tf, disk) :
         /\ tf' = o.tf
         /\ disk' = o.disk
         /\ ret' = o.ret
         /\ tf_calls' = [tf_calls EXCEPT
                           !.op = "sort",
                           !.sorted = @ \/ o.ret = 0]
    /\ UNCHANGED <<pc, notFileVars>>

\* tree_file_close(&tf)
TreeFileClose ==
    /\ pc \in {"tf_open", "tf_failed"}
    /\ pc' = "tf_closed"
    /\ tf' = NULL
    /\ ret' = 0
    /\ tf_calls' = [tf_calls EXCEPT !.op = "close"]
    /\ UNCHANGED <<disk, notFileVars>>

---------------------------------------------------------------------------
Init == SimInit

\* the driver without mutations: simulate, create, dump, load
Next == SimEmit \/ Create \/ Dump \/ Load

Spec == Init /\ [][Next]_vars

\* the driver, and a load of an archive of another format version
NextArchive ==
    SimEmit \/ Create \/ Dump \/ Load \/ OtherVersion \/ LoadOtherVersion

SpecArchive == Init /\ [][NextArchive]_vars

\* the driver with mutations generated or set before the dump
NextMutations ==
    SimEmit \/ Create \/ GenerateMutations \/ SetMutations \/ Dump \/ Load

SpecMutations == Init /\ [][NextMutations]_vars

\* the driver stepping a tree diff iterator to its end; the loop of
\* print_tree_sequence calls next for as long as it returns 1
NextDiff == SimEmit \/ Create \/ DiffAlloc \/ DiffNext

SpecDiff == Init /\ [][NextDiff]_vars

\* the driver stepping a sparse tree iterator to its end
NextTree == SimEmit \/ Create \/ TreeAlloc \/ TreeNext

SpecTree == Init /\ [][NextTree]_vars

\* print_haplotypes on a tree sequence with mutations set by the caller
NextHapgen ==
    SimEmit \/ Create \/ SetMutations \/ HapgenAlloc \/ HapgenTree \/ GetHaplotype

SpecHapgen == Init /\ [][NextHapgen]_vars

\* any sequence of updates of a Fenwick tree
NextBit == BitIncrement \/ BitSetValue

SpecBit == BitInit /\ [][NextBit]_vars

\* the simulator run in one or several msp_run calls, then turned into a tree
\* sequence
NextSim == MspRun \/ MspEvent \/ MspReturn \/ MspCreate

SpecSim == MspInit /\ [][NextSim]_vars

\* run_simulate from the population models of the configuration file on
NextConfig ==
    \/ ReadPopulationModel \/ GetConfigurationReturn \/ RunSimulate
    \/ MspEvent \/ MspReturn \/ MspCreate
    \/ GenerateMutations \/ Dump \/ Load \/ RunSimulateOut
    \/ FatalError \/ MainReturn

SpecConfig == ConfigInit /\ [][NextConfig]_vars

\* a simulation without recombination turned into a tree sequence, whose
\* mutations the caller then sets, and sets again
SetMutationsInit == MspInit /\ msp.scaled_recombination_rate = 0

NextSetMutations ==
    \/ MspRun \/ MspEvent \/ MspReturn \/ MspCreate
    \/ SetMutationsOnce \/ SetMutationsAgain

SpecSetMutations == SetMutationsInit /\ [][NextSetMutations]_vars

\* the two iterators over one tree sequence, stepped together
NextLockstep == SimEmit \/ Create \/ LockstepAlloc \/ LockstepNext

SpecLockstep == Init /\ [][NextLockstep]_vars

\* the trees of a tree sequence whose mutations the caller has set
NextTreeMutations ==
    SimEmit \/ Create \/ SetMutations \/ TreeAllocMutated \/ TreeNextMutated

SpecTreeMutations == Init /\ [][NextTreeMutations]_vars

\* the two iterators called again after the last tree, on a tree sequence
\* whose mutations the caller has set
NextAfterEnd ==
    \/ SimEmit \/ Create \/ SetMutations
    \/ LockstepAllocMutated \/ LockstepNext \/ LockstepAgain

SpecAfterEnd == Init /\ [][NextAfterEnd]_vars

\* the legacy tree file: written, read back, sorted, under every mode
NextTreeFile ==
    \/ TreeFileOpen \/ TreeFileSetSampleSize \/ TreeFileSetNumLoci
    \/ TreeFileAppendRecord \/ TreeFileFinalise \/ TreeFileNextRecord
    \/ TreeFileSort \/ TreeFileClose

SpecTreeFile == TreeFileInit /\ [][NextTreeFile]_vars

---------------------------------------------------------------------------
(* Properties of the tree sequence *)

\* a tree sequence exists once create has run
HasTreeSequence == pc \in {"ts", "mutations", "dumped", "aborted", "loaded"}

\* a tree sequence has been read back by a successful load
HasLoaded == pc = "loaded" /\ ret = 0

\* the columns j of the records of t
Records(t) == 0..(t.num_records - 1)

\* the time of node u is below bound: samples 1..n have time 0, an internal
\* node has the time of the records it is the parent of
NodeTimeBelow(t, u, bound) ==
    IF u <= t.sample_size THEN u >= 1 /\ 0 < bound
    ELSE /\ \E j \in Records(t) : t.node[j] = u
         /\ \A j \in Records(t) : t.node[j] = u => t.time[j] < bound

\* the record invariants over the coordinates first..last
RecordInvariants(t, first, last) ==
    \A j \in Records(t) :
      /\ t.children[2 * j] < t.children[2 * j + 1]
      /\ first <= t.left[j] /\ t.left[j] < t.right[j] /\ t.right[j] <= last
      /\ NodeTimeBelow(t, t.children[2 * j], t.time[j])
      /\ NodeTimeBelow(t, t.children[2 * j + 1], t.time[j])

IsPermutation(t, order) ==
    /\ DOMAIN order = Records(t)
    /\ \A j \in Records(t) : \E k \in Records(t) : order[k] = j

\* consecutive entries of insertion_order: left ascending, ties by time
\* ascending
InsertionSorted(t) ==
    \A k \in 0..(t.num_records - 2) :
      LET a == t.insertion_order[k]
          b == t.insertion_order[k + 1]
      IN  \/ t.left[a] < t.left[b]
          \/ t.left[a] = t.left[b] /\ t.time[a] <= t.time[b]

\* consecutive entries of removal_order: right ascending, ties by time
\* descending
RemovalSorted(t) ==
    \A k \in 0..(t.num_records - 2) :
      LET a == t.removal_order[k]
          b == t.removal_order[k + 1]
      IN  \/ t.right[a] < t.right[b]
          \/ t.right[a] = t.right[b] /\ t.time[a] >= t.time[b]

IndexesSorted(t) ==
    /\ IsPermutation(t, t.insertion_order)
    /\ IsPermutation(t, t.removal_order)
    /\ InsertionSorted(t)
    /\ RemovalSorted(t)

\* C2: after tree_sequence_create or tree_sequence_load succeeds,
\* insertion_order and removal_order are permutations of 0..R-1, the first
\* sorted by (left, time ascending) and the second by (right, time descending).
C2_IndexesSorted ==
    /\ HasTreeSequence => IndexesSorted(ts)
    /\ HasLoaded => IndexesSorted(loaded)

\* a loaded tree sequence in which both indexes have a tie that the time
\* breaks, and neither index is the time order
C2_Witness ==
    /\ HasLoaded
    /\ \E k \in 0..(loaded.num_records - 2) :
         /\ loaded.left[loaded.insertion_order[k]]
              = loaded.left[loaded.insertion_order[k + 1]]
         /\ loaded.right[loaded.removal_order[k]]
              = loaded.right[loaded.removal_order[k + 1]]
    /\ \E k \in Records(loaded) : loaded.insertion_order[k] # k
    /\ \E k \in Records(loaded) : loaded.removal_order[k] # k

\* the two tree sequences agree in everything dump stores and load rebuilds
SameTreeSequence(a, b) ==
    /\ a.sample_size = b.sample_size
    /\ a.num_loci = b.num_loci
    /\ a.num_records = b.num_records
    /\ a.num_nodes = b.num_nodes
    /\ a.num_mutations = b.num_mutations
    /\ a.left = b.left /\ a.right = b.right /\ a.node = b.node
    /\ a.children = b.children /\ a.time = b.time
    /\ a.insertion_order = b.insertion_order
    /\ a.removal_order = b.removal_order
    /\ a.mut_node = b.mut_node /\ a.mut_position = b.mut_position
    /\ a.trees_environment = b.trees_environment
    /\ a.trees_parameters = b.trees_parameters
    /\ a.mut_environment = b.mut_environment
    /\ a.mut_parameters = b.mut_parameters

\* C8: for any tree sequence, with or without mutations and with or without
\* compression, tree_sequence_dump succeeds, and the tree_sequence_load that
\* follows succeeds and yields a tree sequence equal to the original.
C8_DumpLoadRoundTrip ==
    /\ pc # "aborted"
    /\ pc = "dumped" => ret = 0
    /\ pc = "loaded" => ret = 0 /\ SameTreeSequence(ts, loaded)

\* the part of C8 the code keeps: whenever dump returns, it and the load that
\* follows succeed and the round trip is exact
DumpLoadRoundTripWhenDumpReturns ==
    /\ pc = "dumped" => ret = 0
    /\ pc = "loaded" => ret = 0 /\ SameTreeSequence(ts, loaded)

\* a round trip of a tree sequence with mutations
RoundTripWithMutations == HasLoaded /\ loaded.num_mutations > 0

---------------------------------------------------------------------------
(* Properties of the tree diff iterator *)

\* the calls, by position in the history, whose in-list holds record k
InsertedAt(k) ==
    {c \in 1..Len(calls) :
       \E x \in 1..Len(calls[c].inserted) : calls[c].inserted[x] = k}

\* record k appears once in the in-list of call c
InsertedOnce(c, k) ==
    Cardinality({x \in 1..Len(calls[c].inserted) : calls[c].inserted[x] = k}) = 1

\* the list that starts at head holds the node records of the columns ks
ListHolds(head, ks) ==
    LET list == NodeList(diff.node_records, head)
    IN  /\ Len(list) = Len(ks)
        /\ \A x \in 1..Len(ks) :
             [list[x] EXCEPT !.next = NULL] = NodeRecord(ts, ks[x])

\* C3: repeated tree_diff_iterator_next calls on a fresh iterator return 1
\* finitely many times (at most once per locus, and no call fails to return)
\* and then 0, with insertion_index = R; by then every record has appeared in
\* exactly one in-list, and every record of an out-list appeared in the
\* in-list of a strictly earlier call.
C3_DiffIterationEnds ==
    /\ pc # "aborted"
    /\ pc \in {"diff", "diff_done"} =>
         /\ Cardinality({c \in 1..Len(calls) : calls[c].ret = 1}) <= ts.num_loci
         /\ calls # <<>> =>
              /\ ListHolds(diff.nodes_out, calls[Len(calls)].removed)
              /\ ListHolds(diff.nodes_in, calls[Len(calls)].inserted)
         /\ \A c \in 1..Len(calls) :
              \A x \in 1..Len(calls[c].removed) :
                \E b \in InsertedAt(calls[c].removed[x]) : b < c
         /\ \A k \in Records(ts) :
              /\ Cardinality(InsertedAt(k)) <= 1
              /\ \A c \in InsertedAt(k) : InsertedOnce(c, k)
         /\ \A c \in 1..Len(calls) :
              calls[c].ret = IF pc = "diff_done" /\ c = Len(calls) THEN 0 ELSE 1
    /\ pc = "diff_done" =>
         /\ diff.insertion_index = ts.num_records
         /\ \A k \in Records(ts) : Cardinality(InsertedAt(k)) = 1

\* an iteration over several trees has ended, and a call both removed and
\* inserted records
C3_Witness ==
    /\ pc = "diff_done"
    /\ Len(calls) >= 3
    /\ \E c \in 1..Len(calls) :
         calls[c].removed # <<>> /\ calls[c].inserted # <<>>
---------------------------------------------------------------------------
(* Properties of the sparse tree *)

\* the iterator has delivered a tree: the last sparse_tree_iterator_next
\* returned 1
HasTree == pc = "tree" /\ ret = 1

Samples == 1..tree.sample_size

Nodes == 1..tree.num_nodes

\* the nodes passed walking up from u by parent pointers, u first
RECURSIVE PathUp(_)
PathUp(u) == IF u = 0 THEN <<>> ELSE <<u>> \o PathUp(tree.parent[u])

\* the nodes above-or-equal u
Ancestors(u) == {PathUp(u)[x] : x \in 1..Len(PathUp(u))}

\* C4: after every sparse_tree_iterator_next call that returns 1, each sample
\* has time 0 and no children; every node reached walking up from a sample
\* has time > 0 and lists the node below it as one of its two children; and
\* every walk ends at the same node, which is tree.root.
C4_TreeConsistent ==
    HasTree =>
      \A j \in Samples :
        LET path == PathUp(j)
        IN  /\ tree.time[j] = 0
            /\ tree.children[2 * j] = 0
            /\ tree.children[2 * j + 1] = 0
            /\ \A x \in 2..Len(path) :
                 /\ tree.time[path[x]] > 0
                 /\ \/ tree.children[2 * path[x]] = path[x - 1]
                    \/ tree.children[2 * path[x] + 1] = path[x - 1]
            /\ path[Len(path)] = tree.root

\* the second tree or a later one, on three samples, whose root is not the
\* highest-numbered node and is more than one step above some sample
C4_Witness ==
    /\ HasTree
    /\ tree.left > 0
    /\ tree.sample_size >= 3
    /\ tree.root # tree.num_nodes
    /\ \E j \in Samples : Len(PathUp(j)) >= 3

\* the samples in the subtree below v: those whose walk up passes v
LeavesBelow(v) == {j \in Samples : v \in Ancestors(j)}

\* the samples the caller asked to track
TrackedLeaves == {j \in Samples : tree.num_tracked_leaves[j] = 1}

\* C5: with leaf counting enabled, after every sparse_tree_iterator_next call
\* that returns 1, for every node v the maintained num_leaves[v] equals the
\* number of samples a depth-first traversal below v finds, and
\* num_tracked_leaves[v] the number of tracked samples it finds.
C5_LeafCountsMatchTraversal ==
    (HasTree /\ MSP_COUNT_LEAVES \in tree.flags) =>
      \A v \in Nodes :
        /\ sparse_tree_get_num_leaves(tree, v).num_leaves
             = sparse_tree_get_num_leaves_by_traversal(tree, v)
        /\ sparse_tree_get_num_leaves_by_traversal(tree, v)
             = Cardinality(LeavesBelow(v))
        /\ sparse_tree_get_num_tracked_leaves(tree, v).num_tracked_leaves.count
             = CountByTraversal(tree, <<v>>, 0, TrackedLeaves)
        /\ CountByTraversal(tree, <<v>>, 0, TrackedLeaves)
             = Cardinality(LeavesBelow(v) \cap TrackedLeaves)

\* a later tree with counting on, some but not all samples tracked, and a
\* node that has left the tree
C5_Witness ==
    /\ HasTree
    /\ MSP_COUNT_LEAVES \in tree.flags
    /\ tree.left > 0
    /\ TrackedLeaves # {} /\ TrackedLeaves # Samples
    /\ \E v \in Nodes : v > tree.sample_size /\ tree.num_leaves[v] = 0
    /\ \E v \in Nodes :
         v # tree.root /\ tree.num_leaves[v] > 1 /\ tree.num_tracked_leaves[v] = 1

\* the nodes of the current tree: the samples and the nodes above them
TreeNodes == UNION {Ancestors(j) : j \in Samples}

\* C6: for any two nodes u, v of the current tree, sparse_tree_get_mrca(u, v)
\* returns a node that is an ancestor-or-self of both and is the deepest such
\* node: no proper descendant of it is a common ancestor.
C6_MrcaIsDeepestCommonAncestor ==
    HasTree =>
      \A u, v \in TreeNodes :
        LET r == mrcas[<<u, v>>]
            common == Ancestors(u) \cap Ancestors(v)
        IN  /\ r.ret = 0
            /\ r.fault = "none"
            /\ r.mrca.node \in common
            /\ \A w \in common : w \in Ancestors(r.mrca.node)

\* a tree of three or more samples on which some pair has an MRCA below the
\* root, and some pair of internal nodes has one of the two as MRCA
C6_Witness ==
    /\ HasTree
    /\ tree.left > 0
    /\ \E u, v \in Samples :
         u # v /\ mrcas[<<u, v>>].mrca.node # tree.root
    /\ \E u, v \in TreeNodes \ Samples :
         u # v /\ mrcas[<<u, v>>].mrca.node = v
---------------------------------------------------------------------------
(* Properties of the haplotype generator *)

\* hapgen_alloc has returned 0
HasHaplotypes == pc = "hapgen"

\* the record columns whose interval contains the position x
RecordsAt(t, x) == {j \in Records(t) : t.left[j] <= x /\ x < t.right[j]}

\* the parent of u in the marginal tree at x, 0 if it has none
ParentAt(t, x, u) ==
    LET above == {j \in RecordsAt(t, x) :
                    u \in {t.children[2 * j], t.children[2 * j + 1]}}
    IN  IF above = {} THEN 0 ELSE t.node[CHOOSE j \in above : TRUE]

\* u and the nodes above it in the marginal tree at x
RECURSIVE AncestorsAt(_, _, _)
AncestorsAt(t, x, u) ==
    IF u = 0 THEN {} ELSE {u} \cup AncestorsAt(t, x, ParentAt(t, x, u))

\* the samples that are leaves of the subtree rooted at node in the marginal
\* tree at x
LeavesUnderAt(t, x, node) ==
    {k \in 1..t.sample_size : node \in AncestorsAt(t, x, k)}

\* bit (i, s) of the haplotype matrix, as hapgen_get_haplotype reports it
HaplotypeBit(i, s) ==
    hapgen_get_haplotype(hg, i + 1).haplotype.string.chars[s + 1] = "1"

\* the sites of the matrix
Sites == 0..(ts.num_mutations - 1)

\* column s is 1 in exactly the rows of the samples that are leaves below the
\* node of mutation s at its position
ColumnMatchesTree(s) ==
    \A i \in 0..(ts.sample_size - 1) :
      HaplotypeBit(i, s)
        <=> (i + 1) \in LeavesUnderAt(ts, ts.mut_position[s], ts.mut_node[s])

\* C7: for every tree sequence with mutations accepted by set_mutations,
\* hapgen_alloc completes and afterwards the haplotype bit (i, s) is 1 if and
\* only if sample i + 1 is a leaf of the subtree rooted at mutation[s].node in
\* the marginal tree whose interval contains mutation[s].position.
C7_HaplotypeBits ==
    /\ pc # "aborted"
    /\ HasHaplotypes => \A s \in Sites : ColumnMatchesTree(s)

\* whenever hapgen_alloc does return, the columns of the mutations that lie
\* left of the sequence end are as C7 says; a mutation at position num_loci
\* lies in no tree, and its column stays 0
HaplotypeBitsWhenAllocReturns ==
    HasHaplotypes =>
      \A s \in Sites :
        IF ts.mut_position[s] < ts.num_loci THEN ColumnMatchesTree(s)
        ELSE \A i \in 0..(ts.sample_size - 1) : ~HaplotypeBit(i, s)

\* hapgen_alloc is stopped only on a mutation whose node is not part of the
\* marginal tree at its position, and every such mutation left of the
\* sequence end makes a write fall outside the matrix
NodeAbsentAt(t, s) ==
    /\ t.mut_node[s] > t.sample_size
    /\ t.mut_position[s] < t.num_loci
    /\ \A j \in RecordsAt(t, t.mut_position[s]) : t.node[j] # t.mut_node[s]

HapgenFaultIffNodeAbsent ==
    (pc \in {"hapgen", "aborted"}) =>
      ((hg.fault = "out_of_bounds") <=> \E s \in Sites : NodeAbsentAt(ts, s))

\* haplotypes of two sites in different trees, one of them on an internal
\* node with two or more samples below it
TwoSiteHaplotypes ==
    /\ HasHaplotypes
    /\ hg.fault = "none"
    /\ ts.num_mutations = 2
    /\ ts.mut_position[0] # ts.mut_position[1]
    /\ \E s \in 0..1 :
         Cardinality(LeavesUnderAt(ts, ts.mut_position[s], ts.mut_node[s])) >= 2
---------------------------------------------------------------------------
(* Properties of the Fenwick tree *)

\* the sum of the cells 1..i of the plain array
RECURSIVE NaiveSum(_, _)
NaiveSum(values, i) == IF i = 0 THEN 0 ELSE values[i] + NaiveSum(values, i - 1)

BitIndexes == 1..bit.t.max_index

\* C9: after any sequence of increment and set operations that keeps every
\* cell non-negative, get_value(i) is the plain cell value, prefix_sum(i) is
\* the plain sum of the cells 1..i for every i, total() is prefix_sum(m), and
\* a set(i, v) has changed the value of no cell other than i.
C9_FenwickMatchesNaive ==
    pc = "bit" =>
      /\ \A i \in BitIndexes :
           /\ bit_get_value(bit.t, i) = bit.values[i]
           /\ bit_get_cumulative_sum(bit.t, i) = NaiveSum(bit.values, i)
      /\ bit_get_total(bit.t) = NaiveSum(bit.values, bit.t.max_index)
      /\ bit.last.op = "bit_set_value" =>
           \A k \in BitIndexes \ {bit.last.index} :
             bit_get_value(bit.t, k) = bit.last.before[k]

\* a set that changed a non-zero cell of a tree of three or more cells in
\* which another cell is non-zero
C9_Witness ==
    /\ pc = "bit"
    /\ bit.t.max_index >= 3
    /\ bit.last.op = "bit_set_value"
    /\ bit.last.before[bit.last.index] # 0
    /\ bit.last.before[bit.last.index] # bit.values[bit.last.index]
    /\ \E k \in BitIndexes \ {bit.last.index} : bit.values[k] # 0

\* C10: for any v with 1 <= v <= total(), find(v) is the smallest index i
\* with prefix_sum(i) >= v; find(prefix_sum(i)) = i whenever cell i is
\* non-zero; and find(total()) is the largest index holding a non-zero cell.
C10_FindIsSmallestIndex ==
    pc = "bit" =>
      /\ \A v \in 1..bit_get_total(bit.t) :
           LET i == bit_find(bit.t, v)
           IN  /\ i \in BitIndexes
               /\ bit_get_cumulative_sum(bit.t, i) >= v
               /\ \A k \in 1..(i - 1) : bit_get_cumulative_sum(bit.t, k) < v
      /\ \A i \in BitIndexes :
           bit_get_value(bit.t, i) # 0
             => bit_find(bit.t, bit_get_cumulative_sum(bit.t, i)) = i
      /\ bit_get_total(bit.t) > 0 =>
           LET i == bit_find(bit.t, bit_get_total(bit.t))
           IN  /\ bit.values[i] # 0
               /\ \A k \in (i + 1)..bit.t.max_index : bit.values[k] = 0

\* a tree with a zero cell between two non-zero cells and zero cells after
\* the last non-zero one
C10_Witness ==
    /\ pc = "bit"
    /\ bit.t.max_index >= 4
    /\ bit.values[1] # 0 /\ bit.values[2] = 0 /\ bit.values[3] # 0
    /\ bit.values[4] = 0
    /\ bit_get_total(bit.t) >= 3
---------------------------------------------------------------------------
(* Properties of the emission order *)

\* the records the simulator has emitted so far
Emitted == sim.records

\* the pairs j, j + 1 of consecutively emitted records
EmittedPairs == 1..(Len(Emitted) - 1)

\* the pairs j, j + 1 of consecutive columns of t
ColumnPairs(t) == 0..(t.num_records - 2)

\* C11 as amended: consecutively emitted records have non-decreasing time;
\* two consecutive records with the same time are records of one event for
\* distinct sub-intervals, the second to the right of the first; and
\* tree_sequence_create copies the records in that order, so the time column
\* is non-decreasing and equal to the emitted times.
C11_TimeNonDecreasing ==
    /\ \A j \in EmittedPairs :
         /\ Emitted[j].time <= Emitted[j + 1].time
         /\ Emitted[j].time = Emitted[j + 1].time
              => Emitted[j].right <= Emitted[j + 1].left
    /\ HasTreeSequence =>
         /\ \A j \in ColumnPairs(ts) : ts.time[j] <= ts.time[j + 1]
         /\ \A j \in Records(ts) : ts.time[j] = Emitted[j + 1].time

\* C11 as stated: every pair of consecutively emitted records, two records
\* of one event included, has time[j] < time[j + 1].
C11_TimeStrictlyIncreasing ==
    /\ \A j \in EmittedPairs : Emitted[j].time < Emitted[j + 1].time
    /\ HasTreeSequence =>
         \A j \in ColumnPairs(ts) : ts.time[j] < ts.time[j + 1]

\* a tree sequence created from a run in which one event emitted two records
\* and a later event emitted another
C11_Witness ==
    /\ HasTreeSequence
    /\ \E j, k \in ColumnPairs(ts) :
         /\ ts.time[j] = ts.time[j + 1]
         /\ ts.time[k] < ts.time[k + 1]

---------------------------------------------------------------------------
(* Properties of the roots *)

\* the loci of the genome of t
LociOf(t) == FirstLocus..(FirstLocus + t.num_loci - 1)

\* the records covering x whose node is the child of no record covering x:
\* the roots of the marginal tree at x
RootRecordsAt(t, x) ==
    {j \in RecordsAt(t, x) :
       \A k \in RecordsAt(t, x) :
         t.children[2 * k] # t.node[j] /\ t.children[2 * k + 1] # t.node[j]}

\* the records covering x whose node is num_nodes
GrandMrcaRecordsAt(t, x) == {j \in RecordsAt(t, x) : t.node[j] = t.num_nodes}

\* C12 as amended: after a completed simulation is turned into a tree
\* sequence, num_nodes = node[R - 1] is the largest node id and the node of
\* the last emitted record; every locus is covered by exactly one record whose
\* node is the root of the marginal tree there; and at most one record
\* covering a locus has node num_nodes, which is then that root.
C12_OneRootPerLocus ==
    HasTreeSequence =>
      /\ ts.num_nodes = ts.node[ts.num_records - 1]
      /\ ts.node[ts.num_records - 1] = Emitted[Len(Emitted)].node
      /\ \A j \in Records(ts) : ts.node[j] <= ts.num_nodes
      /\ \A x \in LociOf(ts) :
           /\ Cardinality(RootRecordsAt(ts, x)) = 1
           /\ GrandMrcaRecordsAt(ts, x) \subseteq RootRecordsAt(ts, x)

\* C12 as stated: every locus is covered by exactly one record whose node
\* equals num_nodes = node[R - 1].
C12_GrandMrcaAtEveryLocus ==
    HasTreeSequence =>
      /\ ts.num_nodes = ts.node[ts.num_records - 1]
      /\ \A x \in LociOf(ts) : Cardinality(GrandMrcaRecordsAt(ts, x)) = 1

\* a tree sequence of two trees with different roots, one of them num_nodes
C12_Witness ==
    /\ HasTreeSequence
    /\ \E x, y \in LociOf(ts) :
         /\ GrandMrcaRecordsAt(ts, x) # {}
         /\ GrandMrcaRecordsAt(ts, y) = {}
         /\ Cardinality(RootRecordsAt(ts, y)) = 1

---------------------------------------------------------------------------
(* Properties of the simulator's event loop *)

\* the simulator exists
HasSimulator == pc \in {"msp", "msp_run", "msp_complete", "ts"}

\* the sum of the link counts of the ancestors in slots 1..i
RECURSIVE LinkSum(_, _)
LinkSum(s, i) ==
    IF i = 0 THEN 0 ELSE NumLinks(s.ancestors[i]) + LinkSum(s, i - 1)

\* L = fenwick.total() is the sum of the link counts of the live ancestors
TotalIsLinkSum(s) ==
    bit_get_total(s.links) = LinkSum(s, MaxAncestors(s.sample_size, s.num_loci))

\* the Fenwick index that is the left coordinate of the head segment of a,
\* coordinates starting at FirstLocus and indexes at 1
HeadLeftIndex(a) == HeadLeft(a) - FirstLocus + 1

Paused == pc = "msp" /\ ret = 1

\* a cap of the call in progress has tripped
CapTripped == msp.time >= run.max_time \/ run.events >= run.max_events

ColumnRecord(t, j) == tree_sequence_get_record(t, j, MSP_ORDER_TIME).record

\* C15: internal node ids come from a counter that starts at n + 1 and only
\* increases as coalescences occur: next_node is n + 1 plus the number of
\* records emitted, and the j-th emitted record has node n + j; in every
\* emitted record, and in every record of the tree sequence created from the
\* simulation, the node is strictly greater than both children and the
\* children are stored as (min, max).
C15_NodesFromCounter ==
    HasSimulator =>
      /\ msp.next_node = msp.sample_size + 1 + Len(msp.records)
      /\ \A j \in 1..Len(msp.records) :
           /\ msp.records[j].node = msp.sample_size + j
           /\ msp.records[j].children[1] < msp.records[j].children[2]
           /\ msp.records[j].children[2] < msp.records[j].node
           /\ msp.records[j].children[1] >= 1
      /\ pc = "ts" =>
           \A j \in Records(ts) :
             /\ ColumnRecord(ts, j).node = msp.records[j + 1].node
             /\ ColumnRecord(ts, j).children[1] < ColumnRecord(ts, j).children[2]
             /\ ColumnRecord(ts, j).children[2] < ColumnRecord(ts, j).node

\* the counter itself: no step of the simulation lowers next_node
NextNodeOnlyIncreases ==
    [][(pc \in {"msp", "msp_run"}) => ((msp.next_node)' >= msp.next_node)]_vars

\* a tree sequence created from a completed simulation, in which one record
\* joins two samples and a later one has an internal node as its larger child
C15_Witness ==
    /\ pc = "ts"
    /\ \E j, k \in Records(ts) :
         /\ ColumnRecord(ts, j).children[2] > ts.sample_size
         /\ ts.node[j] > ts.sample_size + 1
         /\ ColumnRecord(ts, k).children[2] <= ts.sample_size

\* the simulation ran without recombination and is complete
CompleteWithoutRecombination ==
    /\ pc \in {"msp_complete", "ts"}
    /\ msp.scaled_recombination_rate = 0

\* the completed simulation emitted n - 1 records, each spanning
\* [first, first + m), with the nodes n + 1, ..., 2n - 1 in emission order;
\* for n = 2 the record has children (1, 2), for n = 3 the second record has
\* node 4 as a child
OneTreeRecords(s, first) ==
    /\ Len(s.records) = s.sample_size - 1
    /\ \A j \in 1..Len(s.records) :
         /\ s.records[j].left = first
         /\ s.records[j].right = first + s.num_loci
         /\ s.records[j].node = s.sample_size + j
    /\ s.sample_size = 2 => s.records[1].children = <<1, 2>>
    /\ s.sample_size = 3 => 4 \in {s.records[2].children[1], s.records[2].children[2]}

---------------------------------------------------------------------------
(* Properties of the configuration *)

\* the start times of the list l are not in non-decreasing order
Unsorted(l) == \E k \in 2..Len(l) : l[k].time < l[k - 1].time

\* every element of l has a time and a type read_population_models accepts
WellFormed(l) ==
    \A k \in 1..Len(l) :
      l[k].time >= 0 /\ l[k].type \in {"constant", "exponential"}

\* the first element of l that starts before its predecessor
FirstDescent(l) ==
    CHOOSE k \in 2..Len(l) :
      /\ l[k].time < l[k - 1].time
      /\ \A j \in 2..(k - 1) : l[j].time >= l[j - 1].time

\* C17: population models whose start times are not in non-decreasing order
\* are rejected with MSP_ERR_UNSORTED_POP_MODELS: read_population_models
\* stops at the first model that starts before its predecessor, none of the
\* later ones is added, and run_simulate goes to out without calling msp_run;
\* a sorted list is accepted.  When an element of the list is also one that
\* fatal_error ends the process for, the simulation is not run either.
C17_UnsortedPopModelsRejected ==
    LET l == config.population_models
    IN  /\ Unsorted(l) => pc \notin {"msp_run", "msp_complete", "ts"}
        /\ Unsorted(l) /\ WellFormed(l) /\ pc \in {"configured", "out"} =>
             /\ ret = MSP_ERR_UNSORTED_POP_MODELS
             /\ config.j = FirstDescent(l) - 1
             /\ Len(msp.population_models) = FirstDescent(l)
        /\ ~Unsorted(l) /\ WellFormed(l) /\ pc = "configured" => ret = 0

\* run_simulate at out for a list of three models whose second starts before
\* the first, the third being in order again
C17_Witness ==
    /\ pc = "out"
    /\ ret = MSP_ERR_UNSORTED_POP_MODELS
    /\ Len(config.population_models) = 3
    /\ config.population_models[2].time < config.population_models[1].time
    /\ config.population_models[3].time >= config.population_models[1].time

---------------------------------------------------------------------------
(* Properties of tree_sequence_set_mutations *)

\* tree_sequence_set_mutations has returned
MutationsSet == pc \in {"mutations", "mutations_again"} /\ supplied.called

\* the mutation lies outside what the claim allows: position < 0, position >
\* m, node = 0 or node > num_nodes
OutOfRange(t, mut) ==
    ~(0 <= mut.position /\ mut.position <= t.num_loci
      /\ 1 <= mut.node /\ mut.node <= t.num_nodes)

\* C18: tree_sequence_set_mutations returns MSP_ERR_BAD_MUTATION whenever a
\* supplied mutation has position < 0, position > m, node = 0 or node >
\* num_nodes, and returns 0 for every list, the empty one included, in which
\* all mutations have 0 <= position <= m and 1 <= node <= num_nodes.
C18_BadMutationRejected ==
    MutationsSet =>
      LET l == supplied.mutations
      IN  IF \E j \in 1..Len(l) : OutOfRange(ts, l[j])
          THEN ret = MSP_ERR_BAD_MUTATION
          ELSE ret = 0

\* a list of two mutations at the two ends of the genome, on node 1 and on
\* node num_nodes, was accepted, in a call on a tree sequence that had
\* mutations
C18_Witness ==
    /\ MutationsSet
    /\ ret = 0
    /\ supplied.stored_before > 0
    /\ Len(supplied.mutations) = 2
    /\ supplied.mutations[1].position = ts.num_loci
    /\ supplied.mutations[1].node = ts.num_nodes
    /\ supplied.mutations[2].position = 0
    /\ supplied.mutations[2].node = 1

\* a list whose only fault is a position one past m, or a node one past
\* num_nodes, was rejected
RejectedAtTheBoundary ==
    /\ MutationsSet
    /\ ret = MSP_ERR_BAD_MUTATION
    /\ Len(supplied.mutations) = 2
    /\ ~OutOfRange(ts, supplied.mutations[1])
    /\ supplied.mutations[2].position = ts.num_loci + 1
    /\ supplied.mutations[2].node = 1

\* the number of indexes of the sequence l that hold the mutation mut
Occurrences(l, mut) == Cardinality({j \in 1..Len(l) : l[j] = mut})

\* the stored mutation j of t as a mutation_t
StoredMutation(t, j) == [node |-> t.mut_node[j], position |-> t.mut_position[j]]

\* the stored mutations of t as a sequence
StoredMutations(t) == [j \in 1..t.num_mutations |-> StoredMutation(t, j - 1)]

\* C19: after a successful tree_sequence_set_mutations(list) the stored
\* mutation columns are a permutation of exactly the supplied list, whatever
\* was stored before; num_mutations is the length of the list; the positions
\* are in non-decreasing order; and every node is stored with its own
\* position.
C19_StoredMutationsSorted ==
    MutationsSet /\ ret = 0 =>
      LET l == supplied.mutations
          stored == StoredMutations(ts)
      IN  /\ ts.num_mutations = Len(l)
          /\ DOMAIN ts.mut_node = Indexes(Len(l))
          /\ DOMAIN ts.mut_position = Indexes(Len(l))
          /\ \A j \in 1..Len(l) :
               Occurrences(stored, l[j]) = Occurrences(l, l[j])
          /\ \A j \in 1..Len(stored) :
               Occurrences(stored, stored[j]) = Occurrences(l, stored[j])
          /\ \A j \in 0..(ts.num_mutations - 2) :
               ts.mut_position[j] <= ts.mut_position[j + 1]

\* a list of two mutations given in descending position order, on different
\* nodes, replaced the one mutation stored before and is stored ascending
C19_Witness ==
    /\ MutationsSet
    /\ ret = 0
    /\ supplied.stored_before = 1
    /\ Len(supplied.mutations) = 2
    /\ supplied.mutations[1].position > supplied.mutations[2].position
    /\ supplied.mutations[1].node # supplied.mutations[2].node
    /\ StoredMutation(ts, 0) = supplied.mutations[2]
    /\ StoredMutation(ts, 1) = supplied.mutations[1]

---------------------------------------------------------------------------
(* Properties of tree_sequence_get_record *)

\* the record held at column j of the record table of t
StoredRecord(t, j) ==
    [left |-> t.left[j], right |-> t.right[j], node |-> t.node[j],
     children |-> <<t.children[2 * j], t.children[2 * j + 1]>>,
     time |-> t.time[j]]

\* the column the claim names for index i in the given order
OrderColumn(t, i, order) ==
    CASE order = MSP_ORDER_TIME -> i
      [] order = MSP_ORDER_LEFT -> t.insertion_order[i]
      [] order = MSP_ORDER_RIGHT -> t.removal_order[i]

Orders == {MSP_ORDER_TIME, MSP_ORDER_LEFT, MSP_ORDER_RIGHT}

\* C20: tree_sequence_get_record(i, order) for i < R succeeds with the record
\* of column i for MSP_ORDER_TIME, of column insertion_order[i] for
\* MSP_ORDER_LEFT and of column removal_order[i] for MSP_ORDER_RIGHT, and
\* over i = 0..R-1 each order visits every column exactly once.
C20_GetRecordByOrder ==
    HasTreeSequence =>
      \A order \in Orders :
        /\ \A i \in Indexes(ts.num_records) :
             /\ tree_sequence_get_record(ts, i, order).ret = 0
             /\ tree_sequence_get_record(ts, i, order).record
                  = StoredRecord(ts, OrderColumn(ts, i, order))
        /\ \A j \in Indexes(ts.num_records) :
             Cardinality({i \in Indexes(ts.num_records) :
                            OrderColumn(ts, i, order) = j}) = 1

\* a tree sequence of at least two records in which the three orders visit
\* the columns in three different sequences, and the first record returned
\* in left order differs from the first returned in right order
C20_Witness ==
    /\ HasTreeSequence
    /\ ts.num_records >= 2
    /\ \E i \in Indexes(ts.num_records) : ts.insertion_order[i] # i
    /\ \E i \in Indexes(ts.num_records) : ts.removal_order[i] # i
    /\ tree_sequence_get_record(ts, 0, MSP_ORDER_LEFT).record
         # tree_sequence_get_record(ts, 0, MSP_ORDER_RIGHT).record

---------------------------------------------------------------------------
(* Properties of the error returns of tree_sequence_get_record *)

\* a value of the order argument that is none of the three orderings
OtherOrder == "not an MSP_ORDER"

\* C21: tree_sequence_get_record with index >= num_records returns
\* MSP_ERR_OUT_OF_BOUNDS, whatever the order, valid or not; with an index in
\* range and an order that is none of the three it returns
\* MSP_ERR_BAD_ORDERING; in both cases nothing is written to the caller's
\* record.  (The function has no write to the tree sequence at all.)
C21_GetRecordErrors ==
    HasTreeSequence =>
      /\ \A index \in ts.num_records..(ts.num_records + 2),
            order \in Orders \cup {OtherOrder} :
           tree_sequence_get_record(ts, index, order)
             = [ret |-> MSP_ERR_OUT_OF_BOUNDS, record |-> NULL]
      /\ \A index \in Indexes(ts.num_records) :
           tree_sequence_get_record(ts, index, OtherOrder)
             = [ret |-> MSP_ERR_BAD_ORDERING, record |-> NULL]

\* a tree sequence of two or more records on which the call with the first
\* index out of range and an invalid order is refused for its index, and the
\* call with the last index in range for its order
C21_Witness ==
    /\ HasTreeSequence
    /\ ts.num_records >= 2
    /\ tree_sequence_get_record(ts, ts.num_records, OtherOrder).ret
         = MSP_ERR_OUT_OF_BOUNDS
    /\ tree_sequence_get_record(ts, ts.num_records - 1, OtherOrder).ret
         = MSP_ERR_BAD_ORDERING
    /\ tree_sequence_get_record(ts, ts.num_records - 1, MSP_ORDER_RIGHT).ret = 0

---------------------------------------------------------------------------
(* Properties of tree_sequence_load and tree_sequence_dump as callers see  *)
(* them                                                                    *)

\* tree_sequence_load has returned from an archive whose format_version major
\* is not the supported one
LoadedOtherVersion ==
    /\ pc = "loaded"
    /\ FromU32LE(file.attrs.format_version.data[1])
         # MSP_FILE_FORMAT_VERSION_MAJOR

\* C22: tree_sequence_load of an archive whose format_version major differs
\* from the supported major fails, and the status it returns is
\* MSP_ERR_UNSUPPORTED_FILE_VERSION, not the generic, the HDF5 or the file
\* format status.
C22_UnsupportedFileVersionReturned ==
    LoadedOtherVersion =>
      /\ Negative(ret)
      /\ ret = MSP_ERR_UNSUPPORTED_FILE_VERSION
      /\ ret \notin {MSP_ERR_GENERIC, MSP_ERR_HDF5, MSP_ERR_FILE_FORMAT}

\* what does hold: the load fails, tree_sequence_read_hdf5_metadata finds the
\* version unsupported, and the caller is given MSP_ERR_GENERIC
OtherVersionFailsGeneric ==
    LoadedOtherVersion =>
      /\ tree_sequence_read_hdf5_metadata(ZeroTreeSequence, file).ret
           = MSP_ERR_UNSUPPORTED_FILE_VERSION
      /\ ret = MSP_ERR_GENERIC

\* C23: when tree_sequence_dump or tree_sequence_load returns, with success
\* or with an error that occurred after the file was created or opened, the
\* file identifier has been closed.
C23_FileClosedOnEveryExit ==
    pc \in {"dumped", "other_version", "loaded"} => handles = 0

\* what does hold: the file identifier is closed on the successful returns
FileClosedOnSuccess ==
    (pc \in {"dumped", "other_version", "loaded"} /\ ret = 0) => handles = 0

---------------------------------------------------------------------------
(* Properties of the lists and lengths of tree_diff_iterator_next *)

\* the entries of the index column order (insertion_order or removal_order
\* of ts), in the order of the column, whose record has coord[k] = t
RECURSIVE ColumnsAt(_, _, _, _)
ColumnsAt(order, coord, t, from) ==
    IF from >= ts.num_records THEN <<>>
    ELSE (IF coord[order[from]] = t THEN <<order[from]>> ELSE <<>>)
           \o ColumnsAt(order, coord, t, from + 1)

\* the stepping of the diff iterator has begun and no call has failed
DiffStepped == pc \in {"diff", "diff_done", "aborted"} /\ calls # <<>>

\* C25: in each tree_diff_iterator_next call that returns 1, with t the value
\* of tree_left on entry, the out-list is exactly the records with right = t,
\* none of them removed before, in removal_order order; the in-list is
\* exactly the records with left = t, in insertion_order order; and the
\* out-list is built before the in-list: its node records come first in the
\* buffer.
C25_DiffListsByCoordinate ==
    DiffStepped =>
      /\ pc # "aborted"
      /\ \A c \in 1..Len(calls) :
           calls[c].ret = 1 =>
             /\ calls[c].removed
                  = ColumnsAt(ts.removal_order, ts.right, calls[c].tree_left, 0)
             /\ \A x \in 1..Len(calls[c].removed) :
                  \A b \in 1..(c - 1) :
                    \A y \in 1..Len(calls[b].removed) :
                      calls[b].removed[y] # calls[c].removed[x]
             /\ calls[c].inserted
                  = ColumnsAt(ts.insertion_order, ts.left, calls[c].tree_left, 0)
      /\ calls[Len(calls)].ret = 1 =>
           /\ ListHolds(diff.nodes_out, calls[Len(calls)].removed)
           /\ ListHolds(diff.nodes_in, calls[Len(calls)].inserted)
           /\ diff.nodes_out # NULL => diff.nodes_out.index = 0
           /\ diff.nodes_in # NULL =>
                diff.nodes_in.index = Len(calls[Len(calls)].removed)

\* a call past the first tree that returned 1 with two or more records in
\* its out-list and two or more in its in-list
C25_Witness ==
    /\ DiffStepped
    /\ calls[Len(calls)].ret = 1
    /\ calls[Len(calls)].tree_left > FirstLocus
    /\ Len(calls[Len(calls)].removed) >= 2
    /\ Len(calls[Len(calls)].inserted) >= 2
    /\ diff.nodes_in.index = 2

\* the sum of the lengths the calls 1..c reported
RECURSIVE LengthSum(_)
LengthSum(c) == IF c = 0 THEN 0 ELSE calls[c].length + LengthSum(c - 1)

\* C26: each tree_diff_iterator_next call that returns 1 reports length =
\* new tree_left - previous tree_left, and length > 0; over one complete
\* iteration the lengths reported sum to the number of loci.
C26_DiffLengths ==
    DiffStepped =>
      /\ \A c \in 1..Len(calls) :
           calls[c].ret = 1 =>
             /\ calls[c].length = calls[c].new_tree_left - calls[c].tree_left
             /\ calls[c].length > 0
             /\ calls[c].tree_left
                  = IF c = 1 THEN FirstLocus ELSE calls[c - 1].new_tree_left
      /\ pc = "diff_done" =>
           /\ LengthSum(Len(calls)) = ts.num_loci
           /\ diff.tree_left = FirstLocus + ts.num_loci

\* a complete iteration over two or more trees: the second call starts
\* where the first ended, past the first locus
C26_Witness ==
    /\ pc = "diff_done"
    /\ Len(calls) >= 3
    /\ calls[1].ret = 1 /\ calls[2].ret = 1
    /\ calls[2].tree_left > FirstLocus
    /\ calls[2].length > 0
    /\ calls[Len(calls)].ret = 0

---------------------------------------------------------------------------
(* Properties of sparse_tree_get_num_tracked_leaves *)

\* a sparse tree has been allocated for the iterator
HasSparseTree == pc \in {"tree", "tree_done"}

\* C24: sparse_tree_get_num_tracked_leaves on a sparse tree allocated without
\* MSP_COUNT_LEAVES returns MSP_ERR_UNSUPPORTED_OPERATION and writes nothing
\* to its output; on a tree allocated with the flag it returns 0 and writes
\* the count stored for the node.
C24_TrackedLeavesNeedFlag ==
    HasSparseTree =>
      \A u \in 0..tree.num_nodes :
        \E o \in {sparse_tree_get_num_tracked_leaves(tree, u)} :
          IF MSP_COUNT_LEAVES \in tree.flags
          THEN /\ o.ret = 0
               /\ o.num_tracked_leaves # NULL
               /\ o.num_tracked_leaves.count = tree.num_tracked_leaves[u]
          ELSE /\ o.ret = MSP_ERR_UNSUPPORTED_OPERATION
               /\ o.num_tracked_leaves = NULL

\* a tree past the first one, allocated without the flag, on which the query
\* for the root is refused while sparse_tree_get_num_leaves answers it
C24_Witness ==
    /\ HasTree
    /\ MSP_COUNT_LEAVES \notin tree.flags
    /\ tree.left > FirstLocus
    /\ sparse_tree_get_num_tracked_leaves(tree, tree.root).ret
         = MSP_ERR_UNSUPPORTED_OPERATION
    /\ sparse_tree_get_num_leaves(tree, tree.root).num_leaves = tree.sample_size

---------------------------------------------------------------------------
(* Properties of the driver's exit status *)

\* C30: the driver process exits with status 0 only if configuration,
\* simulation, tree sequence creation, mutation generation, dump and load all
\* succeeded: whenever one of these calls has returned an error, the exit
\* status is not 0.
C30_ExitStatusReportsErrors ==
    (process.exited /\ ret # 0) => process.status # EXIT_SUCCESS

\* what does hold: a process that got as far as run_simulate's out label
\* exits with EXIT_SUCCESS whatever ret is, and only fatal_error gives
\* EXIT_FAILURE
ExitStatusIgnoresRet ==
    process.exited =>
      /\ process.status \in {EXIT_SUCCESS, EXIT_FAILURE}
      /\ ret # 0 => process.status = EXIT_SUCCESS

\* the driver has run through configuration, simulation, mutations, dump and
\* load without an error and exited
ExitedAfterLoad ==
    /\ process.exited
    /\ ret = 0
    /\ loaded # NULL
    /\ process.status = EXIT_SUCCESS

---------------------------------------------------------------------------
(* Properties of the legacy tree file's open mode *)

\* the mode each operation of the tree file asks for
RequiredMode(op) ==
    CASE op = "next_record" -> "r"
      [] op = "sort" -> "u"
      [] OTHER -> "w"

\* the operations that ask for a mode
ModalOperations ==
    {"set_sample_size", "set_num_loci", "append_record", "finalise",
     "next_record", "sort"}

\* the call made by this step is refused: BadMode, the handle and the file
\* as they were
RefusedUntouched ==
    /\ ret' = MSP_ERR_BAD_MODE
    /\ tf' = tf
    /\ disk' = disk

\* C27: set_sample_size, set_num_loci, append_record and finalise succeed
\* only on a handle opened in 'w' mode, next_record only in 'r' mode, sort
\* only in 'u' mode; called in any other mode each returns BadMode and leaves
\* the handle (its stream position included) and the bytes of the file as
\* they were; tree_file_open with a mode other than 'r', 'w', 'u' returns
\* BadMode.
C27_OpenModeEnforced ==
    [][/\ (tf_calls'.op \in ModalOperations
             /\ tf.mode # RequiredMode(tf_calls'.op)) => RefusedUntouched
       /\ (tf_calls'.op = "open" /\ pc = "tf_closed"
             /\ tf'.mode \notin {"r", "w", "u"}) => ret' = MSP_ERR_BAD_MODE]_vars

\* set_num_loci has just been refused on a handle reading a finalised file
\* that holds records and a num_loci
C27_Witness ==
    /\ pc = "tf_open"
    /\ tf_calls.op = "set_num_loci"
    /\ tf.mode = "r"
    /\ ret = MSP_ERR_BAD_MODE
    /\ tf.num_loci >= 1
    /\ Len(tf_calls.appended) >= 1
    /\ tf_calls.finalised

---------------------------------------------------------------------------
(* Properties of reading a legacy tree file back *)

\* a handle is reading a file that was finalised and never sorted
ReadingBack ==
    /\ pc = "tf_open"
    /\ tf.mode = "r"
    /\ tf_calls.finalised
    /\ ~tf_calls.sorted

\* the j-th delivery of the reading handle is the j-th appended record,
\* returned with 0 if it is the last and with 1 otherwise
DeliveredAsAppended(j) ==
    /\ j <= Len(tf_calls.appended)
    /\ tf_calls.delivered[j].r.left = tf_calls.appended[j].left
    /\ tf_calls.delivered[j].r.children = tf_calls.appended[j].children
    /\ tf_calls.delivered[j].r.parent = tf_calls.appended[j].parent
    /\ tf_calls.delivered[j].ret = (IF j = Len(tf_calls.appended) THEN 0 ELSE 1)

\* C28: for any number k >= 0 of records appended in write mode and then
\* finalised, a handle reopened in read mode is delivered by next_record
\* exactly those k records in append order, left, children and parent
\* unchanged; the call delivering the last returns 0 and every earlier one
\* 1, and no call delivers bytes of the metadata trailer as a record.
C28_ReadBackWhatWasAppended ==
    ReadingBack =>
      /\ \A j \in 1..Len(tf_calls.delivered) : DeliveredAsAppended(j)
      /\ ~tf_calls.reading => Len(tf_calls.delivered) = Len(tf_calls.appended)

\* the same for k >= 1: what fails is the file of no records
ReadBackWhenNotEmpty ==
    (ReadingBack /\ Len(tf_calls.appended) >= 1) =>
      /\ \A j \in 1..Len(tf_calls.delivered) : DeliveredAsAppended(j)
      /\ ~tf_calls.reading => Len(tf_calls.delivered) = Len(tf_calls.appended)

\* every appended record has been read back and the reader has stopped
ReadBackAll ==
    /\ ReadingBack
    /\ Len(tf_calls.appended) = MaxAppended
    /\ Len(tf_calls.delivered) = MaxAppended
    /\ ~tf_calls.reading

\* on a file of no records next_record has delivered the first RecordSize
\* characters of the metadata as a record and returned 1
TrailerDeliveredAsRecord ==
    /\ ReadingBack
    /\ tf_calls.appended = <<>>
    /\ Len(tf_calls.delivered) = 1
    /\ tf_calls.delivered[1].ret = 1
    /\ tf_calls.delivered[1].r.left = DecodeU32(SubSeq(JsonText(RecordSize - 2), 1, SizeofU32))

---------------------------------------------------------------------------
(* Properties of the legacy tree file's flags *)

\* the flags word of the header on disk
HeaderFlags == DecodeU32(SubSeq(disk, 17, 20))

\* a handle whose open has read or written the header
HasHandle == pc = "tf_open" /\ tf.mode \in {"r", "w", "u"}

\* C29: the COMPLETE flag (bit 0) of a tree file is set exactly when
\* finalise has succeeded on it and its SORTED flag (bit 1) exactly when
\* sort has succeeded on it, in the header on disk and as is_complete and
\* is_sorted report them; a file freshly opened in write mode has neither,
\* no later operation clears a flag, and sort preserves COMPLETE.
C29_FlagsFollowOperations ==
    /\ disk # NULL =>
         /\ HasFlag(HeaderFlags, MSP_FLAGS_COMPLETE) <=> tf_calls.finalised
         /\ HasFlag(HeaderFlags, MSP_FLAGS_SORTED) <=> tf_calls.sorted
    /\ HasHandle =>
         /\ tree_file_is_complete(tf) # 0 <=> tf_calls.finalised
         /\ tree_file_is_sorted(tf) # 0 <=> tf_calls.sorted

\* a handle reads a file that was finalised and later sorted: both flags
\* are in the header and on the handle
C29_Witness ==
    /\ HasHandle
    /\ tf.mode = "r"
    /\ tf_calls.finalised
    /\ tf_calls.sorted
    /\ HasFlag(HeaderFlags, MSP_FLAGS_COMPLETE)
    /\ HasFlag(HeaderFlags, MSP_FLAGS_SORTED)
    /\ tree_file_is_complete(tf) # 0
    /\ tree_file_is_sorted(tf) # 0

---------------------------------------------------------------------------
(* Properties of the two iterators stepped together *)

\* the arrays of the tree t with the node records of a list cleared (by = 0)
\* or wired in (by = 1), one after the other
RECURSIVE ApplyNodeRecords(_, _, _)
ApplyNodeRecords(t, list, by) ==
    IF list = <<>> THEN t
    ELSE LET r == Head(list)
         IN  ApplyNodeRecords(
               [t EXCEPT
                  !.parent[r.children[1]] = by * r.node,
                  !.parent[r.children[2]] = by * r.node,
                  !.children[2 * r.node] = by * r.children[1],
                  !.children[2 * r.node + 1] = by * r.children[2],
                  !.time[r.node] = by * r.time],
               Tail(list), by)

\* the call of each iterator that was made last
LastStep == calls[Len(calls)]

\* the tree before the last step with the diff's out-list cleared and then
\* its in-list wired in
TreeByDiff ==
    ApplyNodeRecords(
      ApplyNodeRecords(LastStep.tree_before,
                       NodeList(diff.node_records, diff.nodes_out), 0),
      NodeList(diff.node_records, diff.nodes_in), 1)

\* C31: stepped in lockstep over one tree sequence, the diff iterator and
\* the sparse tree iterator return 1 the same number of times; at each step
\* the sparse tree's right - left is the length the diff iterator returned,
\* and its parent, children and time arrays are those of the previous tree
\* with the diff's out-list records cleared and its in-list records wired in.
C31_LockstepAgrees ==
    (pc \in {"lockstep", "lockstep_done"} /\ calls # <<>>) =>
      /\ LastStep.ret = LastStep.tree_ret
      /\ LastStep.ret = 1 =>
           /\ tree.right - tree.left = diff.length
           /\ tree.parent = TreeByDiff.parent
           /\ tree.children = TreeByDiff.children
           /\ tree.time = TreeByDiff.time

\* the step to a second or later tree: records left the tree and entered it
C31_Witness ==
    /\ pc = "lockstep"
    /\ Len(calls) >= 2
    /\ LastStep.ret = 1
    /\ LastStep.tree_ret = 1
    /\ diff.nodes_out # NULL
    /\ diff.nodes_in # NULL

---------------------------------------------------------------------------
(* Properties of the mutation lists of the trees *)

\* the mutation lists of the trees visited, one after the other
RECURSIVE TreeMutationLists(_)
TreeMutationLists(visited) ==
    IF visited = <<>> THEN <<>>
    ELSE Head(visited).mutations \o TreeMutationLists(Tail(visited))

\* every tree has been visited
AllTreesVisited == pc = "tree_mutated_done"

\* every mutation of a visited tree lies on the tree's interval
OnOwnTree ==
    \A j \in 1..Len(calls) : \A l \in 1..Len(calls[j].mutations) :
      /\ calls[j].left <= calls[j].mutations[l].position
      /\ calls[j].mutations[l].position < calls[j].right

\* C32: over all the trees of a tree sequence whose mutations set_mutations
\* accepted, every stored mutation is in the mutation list of exactly one
\* tree, the one with left <= position < right, and in stored order: the
\* lists of the trees, one after the other, are the stored columns, and the
\* num_mutations of the trees sum to the tree sequence's.
C32_EveryMutationOnOneTree ==
    AllTreesVisited =>
      /\ OnOwnTree
      /\ TreeMutationLists(calls) = StoredMutations(ts)
      /\ Len(TreeMutationLists(calls)) = ts.num_mutations

\* the stored mutations left of num_loci, in stored order
RECURSIVE LeftOfEnd(_)
LeftOfEnd(list) ==
    IF list = <<>> THEN <<>>
    ELSE (IF Head(list).position < ts.num_loci THEN <<Head(list)>> ELSE <<>>)
           \o LeftOfEnd(Tail(list))

\* what holds instead: the lists of the trees are the stored mutations whose
\* position is below num_loci; one stored at num_loci is on no tree
MutationsLeftOfEndOnOneTree ==
    AllTreesVisited =>
      /\ OnOwnTree
      /\ TreeMutationLists(calls) = LeftOfEnd(StoredMutations(ts))

\* the trees were visited and a stored mutation at num_loci is on none
MutationAtEndOnNoTree ==
    /\ AllTreesVisited
    /\ ts.num_mutations = MaxMutations
    /\ ts.mut_position[ts.num_mutations - 1] = ts.num_loci
    /\ Len(TreeMutationLists(calls)) = ts.num_mutations - 1

---------------------------------------------------------------------------
(* Properties of tree_sequence_generate_mutations *)

\* tree_sequence_generate_mutations has returned
MutationsGenerated == pc = "mutations"

\* the stored mutation j lies on a branch of record column k: its node is a
\* child of the record and its position is on the record's interval
OnBranchOf(j, k) ==
    /\ ts.mut_node[j] \in {ts.children[2 * k], ts.children[2 * k + 1]}
    /\ ts.left[k] <= ts.mut_position[j]
    /\ ts.mut_position[j] < ts.right[k]

---------------------------------------------------------------------------
(* Properties of the indexes and the buffer of the iterators *)

\* the two iterators have been allocated on ts
Iterating == pc \in {"lockstep", "lockstep_done", "aborted"} /\ diff # NULL

\* C34: while a tree diff iterator and a sparse tree iterator walk a tree
\* sequence that satisfies the record invariants, every read of
\* removal_order[removal_index] has removal_index < num_records, in the
\* removal loop and in the update of tree_left and tree.right alike, and
\* after every call removal_index <= insertion_index <= num_records.
C34_RemovalIndexInBounds ==
    Iterating =>
      /\ \A j \in 1..Len(calls) :
           /\ calls[j].fault # "out_of_bounds"
           /\ calls[j].tree_fault # "out_of_bounds"
      /\ diff.removal_index <= diff.insertion_index
      /\ diff.insertion_index <= ts.num_records
      /\ iter.removal_index <= iter.insertion_index
      /\ iter.insertion_index <= ts.num_records

\* both iterators have reached the last tree of several: every record is
\* inserted, and the records of the last tree are not removed
C34_Witness ==
    /\ pc = "lockstep_done"
    /\ Len(calls) >= 3
    /\ diff.insertion_index = ts.num_records
    /\ iter.insertion_index = ts.num_records
    /\ diff.removal_index < ts.num_records
    /\ diff.removal_index > 0
    /\ iter.removal_index = diff.removal_index

\* C35: in every tree_diff_iterator_next call the out-records and the
\* in-records written to node_records are at most 2 * (sample_size - 1)
\* together, at most sample_size - 1 of each, so that the assertion
\* next_node_record < 2 * sample_size never fails.
C35_NodeRecordsSuffice ==
    Iterating =>
      \A j \in 1..Len(calls) :
        /\ calls[j].fault # "assertion"
        /\ Len(calls[j].removed) <= ts.sample_size - 1
        /\ Len(calls[j].inserted) <= ts.sample_size - 1
        /\ Len(calls[j].removed) + Len(calls[j].inserted)
             <= 2 * (ts.sample_size - 1)

\* a call at which a whole tree left and a whole tree entered
C35_Witness ==
    /\ Iterating
    /\ ts.sample_size = MaxSampleSize
    /\ \E j \in 1..Len(calls) :
         /\ calls[j].ret = 1
         /\ Len(calls[j].removed) = ts.sample_size - 1
         /\ Len(calls[j].inserted) = ts.sample_size - 1

---------------------------------------------------------------------------
(* Properties of the writes of hapgen_alloc *)

\* hapgen_alloc has allocated its buffers on ts
HapgenAllocated == pc \in {"hapgen_trees", "hapgen", "aborted"} /\ hg # NULL

\* C36: for any mutation list set_mutations accepted, on any node 1..
\* num_nodes, every write made during hapgen_alloc is in bounds: bits are
\* set only in rows 0..sample_size - 1 and in words below words_per_row,
\* and the traversal stack never holds more than sample_size entries.
C36_HapgenWritesInBounds ==
    HapgenAllocated => hg.fault = "none"

\* what holds instead: the writes are in bounds when every mutation is on a
\* sample
HapgenInBoundsOnSamples ==
    (HapgenAllocated /\ \A j \in Indexes(ts.num_mutations) :
                          ts.mut_node[j] <= ts.sample_size)
      => hg.fault = "none"

\* a write of hapgen_alloc fell outside the haplotype matrix or the stack
\* for a mutation on a node that is none of the samples
HapgenWroteOutOfBounds ==
    /\ HapgenAllocated
    /\ hg.fault = "out_of_bounds"
    /\ \E j \in Indexes(ts.num_mutations) : ts.mut_node[j] > ts.sample_size

---------------------------------------------------------------------------
(* Properties of a refused tree_sequence_set_mutations *)

\* the records and the indexes of the tree sequence t
RecordColumns(t) ==
    [sample_size |-> t.sample_size, num_loci |-> t.num_loci,
     num_nodes |-> t.num_nodes, num_records |-> t.num_records,
     left |-> t.left, right |-> t.right, node |-> t.node,
     children |-> t.children, time |-> t.time,
     insertion_order |-> t.insertion_order,
     removal_order |-> t.removal_order]

\* C37: when tree_sequence_set_mutations returns BadMutation the tree
\* sequence holds no mutations afterwards: those an earlier successful call
\* stored are discarded, not kept, and the record columns and the indexes
\* are as they were.
C37_RefusedListClearsMutations ==
    (MutationsSet /\ ret = MSP_ERR_BAD_MUTATION) =>
      /\ ts.num_mutations = 0
      /\ RecordColumns(ts) = RecordColumns(supplied.before)

\* a list was refused on a tree sequence that held a mutation
C37_Witness ==
    /\ MutationsSet
    /\ pc = "mutations_again"
    /\ ret = MSP_ERR_BAD_MUTATION
    /\ supplied.stored_before > 0
    /\ supplied.before.num_mutations > 0
    /\ ts.num_mutations = 0

---------------------------------------------------------------------------
(* Properties of the errors and the symmetry of sparse_tree_get_mrca *)

\* the ids sparse_tree_get_mrca is called with: 0, the nodes, and one more
MrcaIds == 0..(tree.num_nodes + 1)

\* C38: sparse_tree_get_mrca(u, v) returns BadParameter when u or v is 0 or
\* above num_nodes; for valid ids without a common ancestor in the current
\* tree, as when one of them is not part of it, it returns 0 with mrca = 0;
\* for all valid u and v, mrca(u, u) = u and mrca(u, v) = mrca(v, u).
C38_MrcaErrorsAndSymmetry ==
    HasTree =>
      \A u, v \in MrcaIds :
        LET r == mrcas[<<u, v>>]
        IN  IF u \notin Nodes \/ v \notin Nodes
            THEN r.ret = MSP_ERR_BAD_PARAM_VALUE
            ELSE /\ r.ret = 0
                 /\ r.fault = "none"
                 /\ Ancestors(u) \cap Ancestors(v) = {} => r.mrca.node = 0
                 /\ mrcas[<<u, u>>].mrca.node = u
                 /\ r.mrca.node = mrcas[<<v, u>>].mrca.node

\* on a later tree a node that has left the tree and a sample have no MRCA
C38_Witness ==
    /\ HasTree
    /\ tree.left > 0
    /\ \E u \in Nodes \ TreeNodes : \E v \in Samples :
         /\ mrcas[<<u, v>>].ret = 0
         /\ mrcas[<<u, v>>].mrca.node = 0
         /\ mrcas[<<v, u>>].mrca.node = 0
    /\ mrcas[<<0, 1>>].ret = MSP_ERR_BAD_PARAM_VALUE

---------------------------------------------------------------------------
(* Properties of the iterators after the last tree *)

\* C39: once tree_diff_iterator_next or sparse_tree_iterator_next has
\* returned 0, every later call returns 0 and changes nothing: the diff
\* iterator reports length 0 with empty out- and in-lists and keeps its
\* indexes and tree_left, and the sparse tree keeps the last tree's interval,
\* root, parent/children/time arrays, leaf counts and mutation list.
C39_NothingAfterTheEnd ==
    [][(pc = "lockstep_done") =>
         /\ Len(calls') = Len(calls) + 1
         /\ pc' = "lockstep_done"
         /\ calls'[Len(calls')].ret = 0
         /\ calls'[Len(calls')].fault = "none"
         /\ calls'[Len(calls')].length = 0
         /\ calls'[Len(calls')].removed = <<>>
         /\ calls'[Len(calls')].inserted = <<>>
         /\ diff'.length = 0
         /\ diff'.nodes_out = NULL
         /\ diff'.nodes_in = NULL
         /\ diff'.insertion_index = diff.insertion_index
         /\ diff'.removal_index = diff.removal_index
         /\ diff'.tree_left = diff.tree_left
         /\ calls'[Len(calls')].tree_ret = 0
         /\ calls'[Len(calls')].tree_fault = "none"
         /\ ret' = 0
         /\ iter' = iter
         /\ tree' = tree
         /\ ts' = ts]_vars

\* both iterators have been called twice after the end of a tree sequence of
\* several trees, the last of which carries a mutation and counts its leaves
C39_Witness ==
    /\ pc = "lockstep_done"
    /\ Cardinality(CallsAtEnd) = 3
    /\ Len(calls) >= 5
    /\ calls[Len(calls)].ret = 0
    /\ calls[Len(calls)].tree_ret = 0
    /\ tree.num_mutations > 0
    /\ MSP_COUNT_LEAVES \in tree.flags
    /\ tree.right = ts.num_loci

====
